---------------------------- MODULE Spec2Model ----------------------------
(***************************************************************************)
(* Royal Shisha Bar admin console: the order lifecycle manager             *)
(* (OrderManagement.tsx), the bar view with its realtime listener          *)
(* (BarOperations, src/unnamed/part_001) and the two table-status          *)
(* classifiers (SimpleLiveTableGrid.tsx and src/unnamed/part_002).         *)
(*                                                                         *)
(* The specifications share the variables:                                 *)
(*   Spec          the OrderManagement view and the remote record store;   *)
(*   SpecLive      Spec with a store that answers every call;              *)
(*   SpecLoads     the order-list loads of the OrderManagement view;       *)
(*   SpecSessions  the OrderManagement view and a BarOperations session    *)
(*                 writing to the same store;                              *)
(*   SpecBarSession  the cards of the bar view with several orders;        *)
(*   SpecGrid      the two classifiers applied to bounded snapshots;       *)
(*   SpecGridView  the loads of the grid with reservations;                *)
(*   SpecSimpleView  the loads and the subscription of the simple grid;    *)
(*   SpecBar       the BarOperations realtime effect with its timers.      *)
(* Each specification leaves the variables of the others at their initial  *)
(* values.                                                                 *)
(***************************************************************************)
EXTENDS Integers, Sequences, FiniteSets, TLC

VARIABLES
  \* ---- remote record store (Spec) ----
  store,           \* order id -> [status, isVerified]; status "deleted" once removed
  \* ---- OrderManagement view (Spec) ----
  mounted,         \* the component is in the tree
  isMounted,       \* the isMounted state of the last committed render
  orders,          \* the orders state: order id -> [status, isVerified]
  stats,           \* the stats state: <<>> for null, else <<OrderStats>>
  loading,         \* the loading state
  isUpdating,      \* the isUpdating state
  selectedOrder,   \* <<>> or <<the order object shown in the details dialog>>
  toasts,          \* toast sink: one bit per kind, flipped by every toast
  initLoad,        \* the loadData of the mount effect: "pending" | "done"
  ops,             \* lifecycle calls (update, delete, verify) in flight
  lastCall,        \* the lifecycle handler invoked last and the order it was given
  \* ---- BarOperations session on the same store (Spec) ----
  barOrders,       \* the orders shown by the bar view: id -> status
  completingOrders,\* the completingOrders state
  barWrites,       \* updateOrderStatus calls of the bar view in flight
  \* ---- table grids (SpecGrid) ----
  gPhase,          \* "input" | "grid" | "simple" | "failed": which classifier has run
  gTables,         \* the tables of the snapshot (sequence of records)
  gOrders,         \* the orders of the snapshot (sequence of records)
  gReservations,   \* the seated reservations passed to processTableData
  gNow,            \* Date.now() read by calculateTableStatuses
  gResult,         \* what the classifier returned
  \* ---- BarOperations realtime effect (SpecBar) ----
  bMounted,        \* the BarOperations component is in the tree
  loadingInitial,  \* loading of useMultipleAdminDataLoader
  menuItemsRef,    \* menuItemsRef.current
  isProcessingRef, \* isProcessingRef.current
  processingReset, \* the 100 ms reset timer: <<>> or <<ms left>>
  lastProcessedOrdersRef, \* <<>> for "", else <<the hash of the last processed orders>>
  drinkOrders,     \* the drinkOrders state
  shishaOrders,    \* the shishaOrders state
  setCalls,        \* flipped by every setDrinkOrders / setShishaOrders pair
  barToasts,       \* flipped by every toast.error of BarOperations
  subs,            \* the runs of the realtime effect, one record per subscription
  lastProcess,     \* how the last processOrdersWithMenuItems call ended
  \* ---- order-list loads of OrderManagement (SpecLoads) ----
  filters,         \* the filters state: the status filter, "all" for none
  listLoads,       \* the order-list loads in flight
  issued,          \* the number of order-list loads issued so far
  latestOutcome,   \* how the load issued last ended: "pending" | "ok" | "failed"
  \* ---- table grid components (SpecGridView, SpecSimpleView) ----
  vMounted,        \* the grid component is in the tree
  vLoading,        \* the loading state
  vError,          \* the error state: <<>> for null, else <<message>>
  vLastUpdated,    \* lastUpdated: 0 for null, else the number of the load that set it
  vToasts,         \* toast sink: one bit per kind, flipped by every toast
  vLoads,          \* the loadData calls in flight
  vIssued,         \* the number of loadData calls so far
  vBackend,        \* the orders held by the backend
  vPushDue         \* the subscription has a snapshot to deliver

gridVars == <<gPhase, gTables, gOrders, gReservations, gNow, gResult>>

omVars == <<mounted, isMounted, orders, stats, loading, isUpdating, selectedOrder,
            toasts, initLoad, ops, lastCall>>

barViewVars == <<barOrders, completingOrders, barWrites>>

procVars == <<isProcessingRef, processingReset, lastProcessedOrdersRef, drinkOrders,
              shishaOrders, setCalls, lastProcess>>

rtVars == <<bMounted, loadingInitial, menuItemsRef, procVars, barToasts, subs>>

loadVars == <<filters, listLoads, issued, latestOutcome>>

viewVars == <<vMounted, vLoading, vError, vLastUpdated, vToasts, vLoads, vIssued,
              vBackend, vPushDue>>

-----------------------------------------------------------------------------
(* Order statuses (types/order OrderStatus, used throughout the views).    *)

OrderStatuses == {"pending", "confirmed", "preparing", "ready", "delivered", "cancelled"}

\* payment?.status; "none" is an order without a payment record
PaymentStatuses == {"none", "unpaid", "partial", "paid"}

-----------------------------------------------------------------------------
(* Generic helpers over sequences.                                         *)

RECURSIVE SumSeq(_)
SumSeq(s) == IF s = <<>> THEN 0 ELSE Head(s) + SumSeq(Tail(s))

RECURSIVE FilterSeq(_, _)
\* Array.prototype.filter with the predicate given as the set of kept values
FilterSeq(s, keep) ==
  IF s = <<>> THEN <<>>
  ELSE IF Head(s) \in keep THEN <<Head(s)>> \o FilterSeq(Tail(s), keep)
       ELSE FilterSeq(Tail(s), keep)

SeqRange(s) == {s[i] : i \in 1..Len(s)}

MapSeq(s, F(_)) == [i \in 1..Len(s) |-> F(s[i])]

CountSeq(s, P(_)) == Cardinality({i \in 1..Len(s) : P(s[i])})

-----------------------------------------------------------------------------
(* The remote record store behind OrderService (services/orderService is   *)
(* not part of the sources: its contract is section 6 of the               *)
(* specification).                                                         *)

MaxOrders == 1

\* lifecycle calls that can be in flight at once
MaxOps == 2

OrderIds == 1..MaxOrders

OpSlots == 1..MaxOps

\* the store when the views open: orders placed by the checkout flow, some
\* of them cancelled since (order ids are interchangeable: the cancelled
\* orders are taken to be the last ones)
StoreInit ==
  {st \in [OrderIds -> [status : {"pending", "cancelled"}, isVerified : {FALSE}]] :
     \A i, j \in OrderIds :
       (i < j /\ st[i].status = "cancelled") => st[j].status = "cancelled"}

\* listOrders(filters?) with no filter: every order that still exists
getOrdersWithFilters(st) ==
  [o \in {i \in OrderIds : st[i].status # "deleted"} |-> st[o]]

\* getOrderStats(): the counts per status bucket, as the two sums the tabs
\* show (OrderManagement.tsx lines 331-345)
getOrderStats(st) ==
  [inProgress |-> Cardinality({i \in OrderIds :
                     st[i].status \in {"pending", "confirmed", "preparing", "ready"}}),
   completed |-> Cardinality({i \in OrderIds :
                     st[i].status \in {"delivered", "cancelled"}})]

\* updateOrderStatus and verifyLoyaltyDiscount fail if the id is unknown;
\* deleteOrder does not check anything
StoreAccepts(st, kind, id) == kind = "delete" \/ st[id].status # "deleted"

\* mutant of StoreApply: a status update replaces the whole order document
StoreApply_UpdateOverwrites(st, kind, id, newStatus) ==
  IF kind = "update" THEN [st EXCEPT ![id] = [status |-> newStatus, isVerified |-> FALSE]]
  ELSE IF kind = "delete" THEN [st EXCEPT ![id].status = "deleted"]
  ELSE [st EXCEPT ![id].isVerified = TRUE]

\* the effect of a successful write; the store has no precondition on the
\* current status (no compare-and-swap)
StoreApply(st, kind, id, newStatus) ==
  IF kind = "update" THEN [st EXCEPT ![id].status = newStatus]
  ELSE IF kind = "delete" THEN [st EXCEPT ![id].status = "deleted"]
  ELSE [st EXCEPT ![id].isVerified = TRUE]

-----------------------------------------------------------------------------
(* OrderManagement.tsx.                                                    *)
(*                                                                         *)
(* Closures: a handler reads the state of the render that created it.      *)
(* React commits the updates made in a click handler before it dispatches  *)
(* the next event, and a click dispatched between an update made by a      *)
(* promise continuation and its commit behaves as if the click preceded    *)
(* the continuation, so orders, loading and isUpdating are committed with  *)
(* the update.  The exception is isMounted: setIsMounted(false) runs in    *)
(* the unmount cleanup, nothing renders afterwards, and every continuation *)
(* still reads the isMounted of its render.  Updates of the state of an    *)
(* unmounted component are dropped by React.                               *)

NoOp == [kind |-> "idle", id |-> 0, newStatus |-> "none", phase |-> "idle",
         ordersPending |-> FALSE, statsPending |-> FALSE]

NoCall == [fn |-> "none", id |-> 0]

FreeSlots == {s \in OpSlots : ops[s].kind = "idle"}

LowestFreeSlot == CHOOSE s \in FreeSlots : \A t \in FreeSlots : s <= t

\* the lifecycle store writes that have been issued and not yet answered
WritesInFlight == {s \in OpSlots : ops[s].phase = "write"}

\* toast.error / toast.success
Toast(kind) == [toasts EXCEPT ![kind] = 1 - @]

\* a state setter: React drops the update once the component is unmounted
SetState(current, value) == IF mounted THEN value ELSE current

\* line 347: the spinner replaces the whole view
ViewShown == mounted /\ ~(loading /\ DOMAIN orders = {})

\* lines 805-810: the details dialog is a fixed full-screen layer whose
\* backdrop takes every click outside the dialog, so the rows behind it are
\* clickable only while no order is selected
RowsClickable == ViewShown /\ selectedOrder = <<>>

\* mutant of canDeleteOrder: the cancelled orders of the completed tab pass too
canDeleteOrder_OrCancelled(order) == order.status \in {"pending", "cancelled"}

\* lines 78-80
canDeleteOrder(order) == order.status = "pending"

\* the status the action button of lines 686-746 passes for a shown status
ButtonTarget(status) ==
  IF status = "pending" THEN "confirmed"
  ELSE IF status = "confirmed" THEN "preparing"
  ELSE IF status = "preparing" THEN "ready"
  ELSE "delivered"

\* mutant of IsBusy: the guard is never taken
IsBusy_Never == FALSE

\* lines 195, 243, 282: the busy guard of the three lifecycle handlers
IsBusy == isUpdating

\* setIsUpdating(true), then the store call is issued (lines 202-205)
IssueWrite(kind, o, newStatus) ==
  /\ FreeSlots # {}
  /\ isUpdating' = SetState(isUpdating, TRUE)
  /\ ops' = [ops EXCEPT ![LowestFreeSlot] =
               [kind |-> kind, id |-> o, newStatus |-> newStatus, phase |-> "write",
                ordersPending |-> FALSE, statsPending |-> FALSE]]

\* lines 193-205, up to the first await
updateOrderStatus(o, newStatus) ==
  /\ lastCall' = [fn |-> "updateOrderStatus", id |-> o]
  /\ IF IsBusy
     THEN /\ toasts' = Toast("error")
          /\ UNCHANGED <<isUpdating, ops>>
     ELSE /\ IssueWrite("update", o, newStatus)
          /\ UNCHANGED toasts
  /\ UNCHANGED <<store, mounted, isMounted, orders, stats, loading, selectedOrder,
                 initLoad>>

\* mutant of deleteOrder: the second confirmation prompt is not asked
deleteOrder_OneConfirm(o, confirm1, confirm2) ==
  /\ lastCall' = [fn |-> "deleteOrder", id |-> o]
  /\ IF o \notin DOMAIN orders
     THEN UNCHANGED <<toasts, isUpdating, ops>>
     ELSE IF ~canDeleteOrder(orders[o])
     THEN /\ toasts' = Toast("error")
          /\ UNCHANGED <<isUpdating, ops>>
     ELSE IF ~confirm1
     THEN UNCHANGED <<toasts, isUpdating, ops>>
     ELSE IF IsBusy
     THEN /\ toasts' = Toast("error")
          /\ UNCHANGED <<isUpdating, ops>>
     ELSE /\ IssueWrite("delete", o, "none")
          /\ UNCHANGED toasts
  /\ UNCHANGED <<store, mounted, isMounted, orders, stats, loading, selectedOrder,
                 initLoad>>

\* lines 228-257, up to the first await; the two window.confirm answers are inputs
deleteOrder(o, confirm1, confirm2) ==
  /\ lastCall' = [fn |-> "deleteOrder", id |-> o]
  /\ IF o \notin DOMAIN orders
     THEN UNCHANGED <<toasts, isUpdating, ops>>
     ELSE IF ~canDeleteOrder(orders[o])
     THEN /\ toasts' = Toast("error")
          /\ UNCHANGED <<isUpdating, ops>>
     ELSE IF ~confirm1
     THEN UNCHANGED <<toasts, isUpdating, ops>>
     ELSE IF IsBusy
     THEN /\ toasts' = Toast("error")
          /\ UNCHANGED <<isUpdating, ops>>
     ELSE IF ~confirm2
     THEN UNCHANGED <<toasts, isUpdating, ops>>
     ELSE /\ IssueWrite("delete", o, "none")
          /\ UNCHANGED toasts
  /\ UNCHANGED <<store, mounted, isMounted, orders, stats, loading, selectedOrder,
                 initLoad>>

\* mutant of verifyLoyaltyDiscount: the busy guard returns without a toast
verifyLoyaltyDiscount_SilentReject(o) ==
  /\ lastCall' = [fn |-> "verifyLoyaltyDiscount", id |-> o]
  /\ IF IsBusy
     THEN UNCHANGED <<toasts, isUpdating, ops>>
     ELSE /\ IssueWrite("verify", o, "none")
          /\ UNCHANGED toasts
  /\ UNCHANGED <<store, mounted, isMounted, orders, stats, loading, selectedOrder,
                 initLoad>>

\* lines 280-292, up to the first await
verifyLoyaltyDiscount(o) ==
  /\ lastCall' = [fn |-> "verifyLoyaltyDiscount", id |-> o]
  /\ IF IsBusy
     THEN /\ toasts' = Toast("error")
          /\ UNCHANGED <<isUpdating, ops>>
     ELSE /\ IssueWrite("verify", o, "none")
          /\ UNCHANGED toasts
  /\ UNCHANGED <<store, mounted, isMounted, orders, stats, loading, selectedOrder,
                 initLoad>>

\* lines 684-748: the action buttons of the in-progress tab
ClickUpdate ==
  \E o \in OrderIds :
    /\ RowsClickable
    /\ o \in DOMAIN orders
    /\ orders[o].status \in {"pending", "confirmed", "preparing", "ready"}
    /\ updateOrderStatus(o, ButtonTarget(orders[o].status))
    /\ UNCHANGED <<barViewVars, gridVars, rtVars, loadVars, viewVars>>

\* lines 698-708 (pending order, in-progress tab) and 753-763 (cancelled
\* order, completed tab)
ClickDelete ==
  \E o \in OrderIds, confirm1 \in BOOLEAN, confirm2 \in BOOLEAN :
    /\ RowsClickable
    /\ o \in DOMAIN orders
    /\ orders[o].status \in {"pending", "cancelled"}
    /\ deleteOrder(o, confirm1, confirm2)
    /\ UNCHANGED <<barViewVars, gridVars, rtVars, loadVars, viewVars>>

\* lines 930-939: the button of the details dialog
ClickVerify ==
  /\ ViewShown
  /\ selectedOrder # <<>>
  /\ ~selectedOrder[1].isVerified
  /\ verifyLoyaltyDiscount(selectedOrder[1].id)
  /\ UNCHANGED <<barViewVars, gridVars, rtVars, loadVars, viewVars>>

\* line 674: setSelectedOrder(order) keeps the order object of this render
ClickDetails ==
  \E o \in OrderIds :
    /\ RowsClickable
    /\ o \in DOMAIN orders
    /\ selectedOrder' = <<[id |-> o, isVerified |-> orders[o].isVerified]>>
    /\ UNCHANGED <<lastCall, store, mounted, isMounted, orders, stats, loading, isUpdating,
                   toasts, initLoad, ops>>
    /\ UNCHANGED <<barViewVars, gridVars, rtVars, loadVars, viewVars>>

\* lines 809 and 817: setSelectedOrder(null)
CloseDetails ==
  /\ ViewShown
  /\ selectedOrder # <<>>
  /\ selectedOrder' = <<>>
  /\ UNCHANGED <<lastCall, store, mounted, isMounted, orders, stats, loading, isUpdating,
                 toasts, initLoad, ops>>
  /\ UNCHANGED <<barViewVars, gridVars, rtVars, loadVars, viewVars>>

\* mutant of WriteAnswered: the catch block reloads the lists as the success
\* path does
WriteAnswered_ReloadOnFailure(s, ok) ==
  /\ ops[s].phase = "write"
  /\ ok => StoreAccepts(store, ops[s].kind, ops[s].id)
  /\ store' = IF ok THEN StoreApply(store, ops[s].kind, ops[s].id, ops[s].newStatus)
              ELSE store
  /\ toasts' = IF ~ok THEN Toast("error")
               ELSE IF ops[s].kind = "verify" THEN toasts ELSE Toast("success")
  /\ loading' = SetState(loading, TRUE)
  /\ ops' = [ops EXCEPT ![s].phase = "reload",
                        ![s].ordersPending = TRUE,
                        ![s].statsPending = TRUE]
  /\ UNCHANGED <<isUpdating, mounted, isMounted, orders, stats, selectedOrder, initLoad,
                 lastCall>>
  /\ UNCHANGED <<barViewVars, gridVars, rtVars, loadVars, viewVars>>

\* mutant of WriteAnswered: isUpdating is released at the end of the try
\* block instead of the finally block, so that a failed write keeps it set
WriteAnswered_NoFinally(s, ok) ==
  /\ ops[s].phase = "write"
  /\ ok => StoreAccepts(store, ops[s].kind, ops[s].id)
  /\ store' = IF ok THEN StoreApply(store, ops[s].kind, ops[s].id, ops[s].newStatus)
              ELSE store
  /\ IF ~isMounted
     THEN /\ ops' = [ops EXCEPT ![s] = NoOp]
          /\ UNCHANGED <<toasts, loading, isUpdating>>
     ELSE IF ok
     THEN /\ toasts' = IF ops[s].kind = "verify" THEN toasts ELSE Toast("success")
          /\ loading' = SetState(loading, TRUE)
          /\ ops' = [ops EXCEPT ![s].phase = "reload",
                                ![s].ordersPending = TRUE,
                                ![s].statsPending = TRUE]
          /\ UNCHANGED isUpdating
     ELSE /\ toasts' = Toast("error")
          /\ ops' = [ops EXCEPT ![s] = NoOp]
          /\ UNCHANGED <<loading, isUpdating>>
  /\ UNCHANGED <<mounted, isMounted, orders, stats, selectedOrder, initLoad,
                 lastCall>>
  /\ UNCHANGED <<barViewVars, gridVars, rtVars, loadVars, viewVars>>

\* lines 205-222, 257-274, 292-309: the store answers the write; on success
\* the handler raises its toast and calls loadOrders() (setLoading(true),
\* line 96) and loadStats(); on failure it raises the error toast and the
\* finally block releases isUpdating
WriteAnswered(s, ok) ==
  /\ ops[s].phase = "write"
  /\ ok => StoreAccepts(store, ops[s].kind, ops[s].id)
  /\ store' = IF ok THEN StoreApply(store, ops[s].kind, ops[s].id, ops[s].newStatus)
              ELSE store
  /\ IF ~isMounted
     THEN /\ ops' = [ops EXCEPT ![s] = NoOp]
          /\ UNCHANGED <<toasts, loading, isUpdating>>
     ELSE IF ok
     THEN /\ toasts' = IF ops[s].kind = "verify" THEN toasts ELSE Toast("success")
          /\ loading' = SetState(loading, TRUE)
          /\ ops' = [ops EXCEPT ![s].phase = "reload",
                                ![s].ordersPending = TRUE,
                                ![s].statsPending = TRUE]
          /\ UNCHANGED isUpdating
     ELSE /\ toasts' = Toast("error")
          /\ isUpdating' = SetState(isUpdating, FALSE)
          /\ ops' = [ops EXCEPT ![s] = NoOp]
          /\ UNCHANGED loading
  /\ UNCHANGED <<mounted, isMounted, orders, stats, selectedOrder, initLoad,
                 lastCall>>
  /\ UNCHANGED <<barViewVars, gridVars, rtVars, loadVars, viewVars>>

WriteSettled == \E s \in OpSlots, ok \in BOOLEAN : WriteAnswered(s, ok)

\* mutant of ReloadFinished: isUpdating is released when the first of the two
\* reloads settles
ReloadFinished_ReleaseEarly(s, ordersPending, statsPending) ==
  /\ ops' = IF ~ordersPending /\ ~statsPending
            THEN [ops EXCEPT ![s] = NoOp]
            ELSE [ops EXCEPT ![s].ordersPending = ordersPending,
                             ![s].statsPending = statsPending]
  /\ isUpdating' = IF isMounted THEN SetState(isUpdating, FALSE) ELSE isUpdating

\* the end of Promise.allSettled([loadOrders(), loadStats()]) and the
\* finally block (lines 212, 218-222)
ReloadFinished(s, ordersPending, statsPending) ==
  IF ~ordersPending /\ ~statsPending
  THEN /\ ops' = [ops EXCEPT ![s] = NoOp]
       /\ isUpdating' = IF isMounted THEN SetState(isUpdating, FALSE) ELSE isUpdating
  ELSE /\ ops' = [ops EXCEPT ![s].ordersPending = ordersPending,
                             ![s].statsPending = statsPending]
       /\ UNCHANGED isUpdating

\* loadOrders, lines 97-120, called by a lifecycle handler
ReloadOrdersSettled ==
  \E s \in OpSlots, ok \in BOOLEAN :
    /\ ops[s].phase = "reload"
    /\ ops[s].ordersPending
    /\ IF ~isMounted
       THEN UNCHANGED <<orders, toasts, loading>>
       ELSE /\ orders' = IF ok THEN SetState(orders, getOrdersWithFilters(store)) ELSE orders
            /\ toasts' = IF ok THEN toasts ELSE Toast("error")
            /\ loading' = SetState(loading, FALSE)
    /\ ReloadFinished(s, FALSE, ops[s].statsPending)
    /\ UNCHANGED <<store, mounted, isMounted, stats, selectedOrder, initLoad,
                   lastCall>>
    /\ UNCHANGED <<barViewVars, gridVars, rtVars, loadVars, viewVars>>

\* loadStats, lines 123-138, called by a lifecycle handler
ReloadStatsSettled ==
  \E s \in OpSlots, ok \in BOOLEAN :
    /\ ops[s].phase = "reload"
    /\ ops[s].statsPending
    /\ stats' = IF isMounted /\ ok THEN SetState(stats, <<getOrderStats(store)>>) ELSE stats
    /\ ReloadFinished(s, ops[s].ordersPending, FALSE)
    /\ UNCHANGED <<store, mounted, isMounted, orders, loading, selectedOrder, toasts,
                   initLoad, lastCall>>
    /\ UNCHANGED <<barViewVars, gridVars, rtVars, loadVars, viewVars>>

\* mutant of LoadDataAnswered: the two fetches are awaited with Promise.all,
\* so that one failure discards the result of the other
LoadDataAnswered_AllOrNothing(okOrders, okStats) ==
  /\ initLoad = "pending"
  /\ initLoad' = "done"
  /\ IF ~isMounted
     THEN UNCHANGED <<orders, toasts, stats, loading>>
     ELSE /\ orders' = IF okOrders /\ okStats
                       THEN SetState(orders, getOrdersWithFilters(store))
                       ELSE orders
          /\ toasts' = IF okOrders /\ okStats THEN toasts ELSE Toast("error")
          /\ stats' = IF okOrders /\ okStats
                      THEN SetState(stats, <<getOrderStats(store)>>) ELSE stats
          /\ loading' = SetState(loading, FALSE)
  /\ UNCHANGED <<store, mounted, isMounted, isUpdating, selectedOrder, ops, lastCall>>
  /\ UNCHANGED <<barViewVars, gridVars, rtVars, loadVars, viewVars>>

\* the continuation of Promise.allSettled([orders, stats]) in loadData
LoadDataAnswered(okOrders, okStats) ==
  /\ initLoad = "pending"
  /\ initLoad' = "done"
  /\ IF ~isMounted
     THEN UNCHANGED <<orders, toasts, stats, loading>>
     ELSE /\ orders' = IF okOrders THEN SetState(orders, getOrdersWithFilters(store))
                       ELSE orders
          /\ toasts' = IF okOrders THEN toasts ELSE Toast("error")
          /\ stats' = IF okStats THEN SetState(stats, <<getOrderStats(store)>>) ELSE stats
          /\ loading' = SetState(loading, FALSE)
  /\ UNCHANGED <<store, mounted, isMounted, isUpdating, selectedOrder, ops, lastCall>>
  /\ UNCHANGED <<barViewVars, gridVars, rtVars, loadVars, viewVars>>

\* lines 141-190: both fetches of the mount effect have settled
LoadDataSettled ==
  \E okOrders \in BOOLEAN, okStats \in BOOLEAN : LoadDataAnswered(okOrders, okStats)

\* lines 83-88: the cleanup calls setIsMounted(false) on a component that
\* never renders again, so the closures in flight keep their isMounted
Unmount ==
  /\ mounted
  /\ mounted' = FALSE
  /\ UNCHANGED <<store, isMounted, orders, stats, loading, isUpdating, selectedOrder,
                 toasts, initLoad, ops, lastCall>>
  /\ UNCHANGED <<barViewVars, gridVars, rtVars, loadVars, viewVars>>

-----------------------------------------------------------------------------
(* The lifecycle handlers of BarOperations (src/unnamed/part_001 327-376   *)
(* and the buttons of lines 500-538), acting on the same store.  The list  *)
(* the bar view shows is the last snapshot its listener processed.         *)

\* the query of lines 247-253 and the listener result shown in the cards
BarListenerUpdate ==
  /\ barOrders' = [o \in {i \in DOMAIN store :
                            store[i].status \in {"pending", "confirmed", "preparing"}}
                     |-> store[o].status]
  /\ barOrders' # barOrders
  /\ UNCHANGED <<store, completingOrders, barWrites>>
  /\ UNCHANGED <<omVars, gridVars, rtVars, loadVars, viewVars>>

\* lines 329-334 and 355-360, up to the first await
BarIssueWrite(o, newStatus) ==
  IF o \in completingOrders
  THEN UNCHANGED <<completingOrders, barWrites>>
  ELSE /\ completingOrders' = completingOrders \cup {o}
       /\ barWrites' = barWrites \cup {[id |-> o, newStatus |-> newStatus]}

\* lines 353-376, offered for an order shown as pending (lines 500-504)
handleStartPreparing ==
  \E o \in DOMAIN store :
    /\ o \in DOMAIN barOrders
    /\ barOrders[o] = "pending"
    /\ o \notin completingOrders
    /\ BarIssueWrite(o, "preparing")
    /\ UNCHANGED <<store, barOrders>>
    /\ UNCHANGED <<omVars, gridVars, rtVars, loadVars, viewVars>>

\* lines 327-350, offered for an order shown as confirmed or preparing
\* (lines 520-524)
handleCompleteItem ==
  \E o \in DOMAIN store :
    /\ o \in DOMAIN barOrders
    /\ barOrders[o] \in {"confirmed", "preparing"}
    /\ o \notin completingOrders
    /\ BarIssueWrite(o, "ready")
    /\ UNCHANGED <<store, barOrders>>
    /\ UNCHANGED <<omVars, gridVars, rtVars, loadVars, viewVars>>

\* mutant of BarWriteSettled: the id is removed in the try block, after the
\* success toast, so that a failed write leaves it in completingOrders
BarWriteSettled_KeepOnFailure ==
  \E w \in barWrites, ok \in BOOLEAN :
    /\ ok => StoreAccepts(store, "update", w.id)
    /\ store' = IF ok THEN StoreApply(store, "update", w.id, w.newStatus) ELSE store
    /\ completingOrders' = IF ok THEN completingOrders \ {w.id} ELSE completingOrders
    /\ barWrites' = barWrites \ {w}
    /\ UNCHANGED barOrders
    /\ UNCHANGED <<omVars, gridVars, rtVars, loadVars, viewVars>>

\* lines 334-347 and 360-373: the store answers, the finally block removes the id
BarWriteSettled ==
  \E w \in barWrites, ok \in BOOLEAN :
    /\ ok => StoreAccepts(store, "update", w.id)
    /\ store' = IF ok THEN StoreApply(store, "update", w.id, w.newStatus) ELSE store
    /\ completingOrders' = completingOrders \ {w.id}
    /\ barWrites' = barWrites \ {w}
    /\ UNCHANGED barOrders
    /\ UNCHANGED <<omVars, gridVars, rtVars, loadVars, viewVars>>

-----------------------------------------------------------------------------
(* Spec: the OrderManagement view right after its first render, with the   *)
(* mount effect's loadData in flight (loading is true, lines 34 and 146).  *)

EmptyOrders == [o \in {} |-> [status |-> "pending", isVerified |-> FALSE]]

EmptyBarOrders == [o \in {} |-> "pending"]

\* the order-list loads of SpecLoads, not running
LoadsIdle ==
  /\ filters = "all"
  /\ listLoads = {}
  /\ issued = 0
  /\ latestOutcome = "pending"

\* the grid components of SpecGridView and SpecSimpleView, not mounted
ViewsIdle ==
  /\ vMounted = FALSE
  /\ vLoading = FALSE
  /\ vError = <<>>
  /\ vLastUpdated = 0
  /\ vToasts = [error |-> 0, success |-> 0, loading |-> 0]
  /\ vLoads = {}
  /\ vIssued = 0
  /\ vBackend = <<>>
  /\ vPushDue = FALSE

OmInit ==
  /\ mounted = TRUE
  /\ isMounted = TRUE
  /\ orders = EmptyOrders
  /\ stats = <<>>
  /\ loading = TRUE
  /\ isUpdating = FALSE
  /\ selectedOrder = <<>>
  /\ toasts = [error |-> 0, success |-> 0]
  /\ initLoad = "pending"
  /\ ops = [s \in OpSlots |-> NoOp]
  /\ lastCall = NoCall

BarViewInit ==
  /\ barOrders = EmptyBarOrders
  /\ completingOrders = {}
  /\ barWrites = {}

-----------------------------------------------------------------------------
(* BarOperations (src/unnamed/part_001): processOrdersWithMenuItems and    *)
(* the realtime effect with its two timers.  Time advances in steps of the *)
(* shorter delay; a timer fires when its remaining delay is zero and time  *)
(* does not advance past a timer that is due.  The hooks                   *)
(* useMultipleAdminDataLoader and useRealtimeAdminData are not part of the *)
(* sources: the loader reports one result per load through onSuccess or    *)
(* onError and holds loading true meanwhile, and the callback handed to    *)
(* the subscribe function passes its data to the processing function.      *)

\* orders in a snapshot of the change feed
MaxSnapOrders == 1

\* runs of the realtime effect (subscriptions) in one behaviour
MaxSubs == 2

\* line 291: the debounce delay, in ms
DebounceDelay == 300

\* line 158: the delay of the timer that resets isProcessingRef, in ms
ProcessingCooldown == 100

\* the step of the clock
TimeStep == ProcessingCooldown

SnapOrderIds == 1..MaxSnapOrders

Subs == 1..MaxSubs

\* lines 41-44
CATEGORIES ==
  [DRINKS |-> {"drinks", "beverages"}, SHISHA |-> {"shisha", "hookah", "tobacco"}]

\* the catalogs getDocs(menuQuery) can return (lines 209-219)
MenuLists ==
  { <<>>,
    <<[id |-> 1, category |-> "drinks"], [id |-> 2, category |-> "shisha"]>>,
    <<[id |-> 1, category |-> "tobacco"], [id |-> 2, category |-> "food"]>> }

\* what the feed can change of an order that stays in the query
BarOrderAttrs ==
  { [status |-> "pending", updatedAt |-> 1],
    [status |-> "preparing", updatedAt |-> 2] }

\* an order document as mapped in lines 273-281; order i holds one line
\* item, of menu item 1 or 2
BarOrder(id, attrs) ==
  [id |-> id, status |-> attrs.status, updatedAt |-> attrs.updatedAt,
   items |-> <<[menuItemId |-> ((id - 1) % 2) + 1]>>]

RECURSIVE AscendingSeq(_)
\* orderBy("createdAt", "asc"): order ids are given in creation order
AscendingSeq(S) ==
  IF S = {} THEN <<>>
  ELSE LET m == CHOOSE x \in S : \A y \in S : x <= y
       IN <<m>> \o AscendingSeq(S \ {m})

\* the snapshots of the query of lines 247-253
Snapshots ==
  UNION { { [k \in 1..Len(AscendingSeq(I)) |->
               BarOrder(AscendingSeq(I)[k], f[AscendingSeq(I)[k]])]
            : f \in [I -> BarOrderAttrs] }
          : I \in SUBSET SnapOrderIds }

\* lines 101-107, before JSON.stringify
OrdersHash(orderSeq) ==
  [k \in 1..Len(orderSeq) |->
     [id |-> orderSeq[k].id, status |-> orderSeq[k].status,
      updatedAt |-> orderSeq[k].updatedAt]]

\* mutant of SameHash: the comparison never succeeds
SameHash_Never(ordersHash, last) == FALSE

\* line 110: ordersHash === lastProcessedOrdersRef.current
SameHash(ordersHash, last) == last = <<ordersHash>>

RECURSIVE MenuItemsMapGet(_, _)
\* menuItemsMap.get(id), lines 118 and 126: the last entry with that id;
\* <<>> for undefined
MenuItemsMapGet(menuItems, id) ==
  IF menuItems = <<>> THEN <<>>
  ELSE IF menuItems[Len(menuItems)].id = id THEN <<menuItems[Len(menuItems)]>>
  ELSE MenuItemsMapGet(SubSeq(menuItems, 1, Len(menuItems) - 1), id)

\* mutant of CategoryList: tobacco is not a shisha category
CategoryList_NoTobacco(category) ==
  IF category \in CATEGORIES.DRINKS THEN "drinks"
  ELSE IF category \in CATEGORIES.SHISHA \ {"tobacco"} THEN "shisha"
  ELSE "none"

\* lines 138-142: the list an item of this category is pushed to
CategoryList(category) ==
  IF category \in CATEGORIES.DRINKS THEN "drinks"
  ELSE IF category \in CATEGORIES.SHISHA THEN "shisha"
  ELSE "none"

\* lines 129-135
OrderWithMenuItem(order, orderItem, menuItem) ==
  [id |-> order.id, status |-> order.status, updatedAt |-> order.updatedAt,
   currentItem |-> [menuItemId |-> orderItem.menuItemId, category |-> menuItem.category]]

RECURSIVE ItemsPushed(_, _, _, _)
\* order.items.forEach of lines 125-150, for one of the two lists
ItemsPushed(order, items, menuItems, list) ==
  IF items = <<>> THEN <<>>
  ELSE LET menuItem == MenuItemsMapGet(menuItems, Head(items).menuItemId)
           rest == ItemsPushed(order, Tail(items), menuItems, list)
       IN IF menuItem # <<>> /\ CategoryList(menuItem[1].category) = list
          THEN <<OrderWithMenuItem(order, Head(items), menuItem[1])>> \o rest
          ELSE rest

RECURSIVE OrdersPushed(_, _, _)
\* orders.forEach of lines 124-151, for one of the two lists
OrdersPushed(orderSeq, menuItems, list) ==
  IF orderSeq = <<>> THEN <<>>
  ELSE ItemsPushed(Head(orderSeq), Head(orderSeq).items, menuItems, list)
         \o OrdersPushed(Tail(orderSeq), menuItems, list)

\* a setter of BarOperations: React drops the update once it is unmounted
BarSetState(current, value) == IF bMounted THEN value ELSE current

\* lines 93-161
processOrdersWithMenuItems(orderSeq, menuItems) ==
  IF isProcessingRef
  THEN /\ lastProcess' = "busy"
       /\ UNCHANGED <<isProcessingRef, processingReset, lastProcessedOrdersRef,
                      drinkOrders, shishaOrders, setCalls>>
  ELSE IF SameHash(OrdersHash(orderSeq), lastProcessedOrdersRef)
  THEN /\ lastProcess' = "unchanged"
       /\ UNCHANGED <<isProcessingRef, processingReset, lastProcessedOrdersRef,
                      drinkOrders, shishaOrders, setCalls>>
  ELSE /\ isProcessingRef' = TRUE
       /\ lastProcessedOrdersRef' = <<OrdersHash(orderSeq)>>
       /\ drinkOrders' = BarSetState(drinkOrders, OrdersPushed(orderSeq, menuItems, "drinks"))
       /\ shishaOrders' = BarSetState(shishaOrders, OrdersPushed(orderSeq, menuItems, "shisha"))
       /\ setCalls' = 1 - setCalls
       /\ processingReset' = <<ProcessingCooldown>>
       /\ lastProcess' = "processed"

\* a run of the realtime effect that has not happened yet
NoSub ==
  [status |-> "unused", isSubscribed |-> FALSE, debounceTimeout |-> <<>>,
   unsubscribed |-> FALSE, lastSnapshot |-> <<>>, burstCallbacks |-> <<>>,
   late |-> FALSE]

\* lines 260-261 and 266-307: isSubscribed = true, no timer, listener attached
NewSub == [NoSub EXCEPT !.status = "live", !.isSubscribed = TRUE]

\* mutant of EffectCleanup: the cleanup leaves isSubscribed set
EffectCleanup_FlagKept(sub) ==
  [sub EXCEPT !.status = "torn", !.debounceTimeout = <<>>, !.unsubscribed = TRUE,
              !.lastSnapshot = <<>>, !.burstCallbacks = <<>>]

\* lines 309-317: the cleanup of the realtime effect
EffectCleanup(sub) ==
  [sub EXCEPT !.status = "torn", !.isSubscribed = FALSE, !.debounceTimeout = <<>>,
              !.unsubscribed = TRUE, !.lastSnapshot = <<>>, !.burstCallbacks = <<>>]

\* React runs the cleanup of the effect's last run
CleanupLive(sb) ==
  [g \in Subs |-> IF sb[g].status = "live" THEN EffectCleanup(sb[g]) ELSE sb[g]]

UnusedSubs(sb) == {g \in Subs : sb[g].status = "unused"}

\* lines 256-307: the effect runs once initialData is there and loadingInitial is false
SetupListener(sb) ==
  IF UnusedSubs(sb) = {} THEN sb
  ELSE [sb EXCEPT ![CHOOSE g \in UnusedSubs(sb) : \A h \in UnusedSubs(sb) : g <= h] = NewSub]

\* mutant of ArmDebounce: a pending timer is kept, with its snapshot
ArmDebounce_KeepPending(pending, orderSeq) ==
  IF pending # <<>> THEN pending
  ELSE <<[remaining |-> DebounceDelay, orders |-> orderSeq]>>

\* lines 284-291: clearTimeout(debounceTimeout); debounceTimeout = setTimeout(.., 300)
ArmDebounce(pending, orderSeq) == <<[remaining |-> DebounceDelay, orders |-> orderSeq]>>

\* the snapshot opens a new burst: none came in the last DebounceDelay ms
OpensBurst(sub) == sub.lastSnapshot = <<>> \/ sub.lastSnapshot[1].age >= DebounceDelay

\* the debounce timer of the subscription is to fire now
TimerDue(sub) ==
  IF sub.debounceTimeout = <<>> THEN FALSE ELSE sub.debounceTimeout[1].remaining = 0

\* lines 173-177: onSuccess of the loader, then the realtime effect runs
InitialLoadSuccess(menuItems, pendingOrders) ==
  /\ bMounted
  /\ loadingInitial
  /\ loadingInitial' = FALSE
  /\ menuItemsRef' = menuItems
  /\ processOrdersWithMenuItems(pendingOrders, menuItems)
  /\ subs' = SetupListener(subs)
  /\ UNCHANGED <<bMounted, barToasts>>
  /\ UNCHANGED <<store, omVars, barViewVars, gridVars, loadVars, viewVars>>

\* lines 178-181: onError of the loader; initialData keeps its value, so the
\* realtime effect runs as well
InitialLoadFailed ==
  /\ bMounted
  /\ loadingInitial
  /\ loadingInitial' = FALSE
  /\ barToasts' = 1 - barToasts
  /\ subs' = SetupListener(subs)
  /\ UNCHANGED <<bMounted, menuItemsRef, procVars>>
  /\ UNCHANGED <<store, omVars, barViewVars, gridVars, loadVars, viewVars>>

InitialLoadSettled ==
  \/ \E menuItems \in MenuLists, pendingOrders \in Snapshots :
       InitialLoadSuccess(menuItems, pendingOrders)
  \/ InitialLoadFailed

\* lines 581, 595, 616: reloadInitialData; loadingInitial turns true and the
\* realtime effect is cleaned up
ReloadInitialData ==
  /\ bMounted
  /\ ~loadingInitial
  /\ UnusedSubs(subs) # {}
  /\ loadingInitial' = TRUE
  /\ subs' = CleanupLive(subs)
  /\ UNCHANGED <<bMounted, menuItemsRef, procVars, barToasts>>
  /\ UNCHANGED <<store, omVars, barViewVars, gridVars, loadVars, viewVars>>

\* the component leaves the tree: the realtime effect is cleaned up
BarUnmount ==
  /\ bMounted
  /\ bMounted' = FALSE
  /\ subs' = CleanupLive(subs)
  /\ UNCHANGED <<loadingInitial, menuItemsRef, procVars, barToasts>>
  /\ UNCHANGED <<store, omVars, barViewVars, gridVars, loadVars, viewVars>>

\* the store can deliver an event to the listener: it is attached, or it was
\* detached while one event was under way
Reachable(sub) == sub.status = "live" \/ (sub.status = "torn" /\ ~sub.late)

\* lines 270-292: the store pushes a snapshot to the listener of subscription
\* g; a push that was under way at the teardown still arrives
OnSnapshot(g, orderSeq) ==
  /\ Reachable(subs[g])
  /\ subs' = [subs EXCEPT ![g] =
       IF ~subs[g].isSubscribed
       THEN [subs[g] EXCEPT !.late = TRUE]
       ELSE [subs[g] EXCEPT
               !.debounceTimeout = ArmDebounce(subs[g].debounceTimeout, orderSeq),
               !.lastSnapshot =
                  <<[orders |-> orderSeq, age |-> 0,
                     burst |-> IF OpensBurst(subs[g]) THEN 1 ELSE 2]>>,
               !.burstCallbacks = IF OpensBurst(subs[g]) THEN <<>> ELSE @]]
  /\ UNCHANGED <<bMounted, loadingInitial, menuItemsRef, procVars, barToasts>>
  /\ UNCHANGED <<store, omVars, barViewVars, gridVars, loadVars, viewVars>>

\* lines 293-297: the listener's error handler
OnListenerError(g) ==
  /\ Reachable(subs[g])
  /\ IF ~subs[g].isSubscribed
     THEN /\ subs' = [subs EXCEPT ![g].late = TRUE]
          /\ UNCHANGED barToasts
     ELSE /\ barToasts' = 1 - barToasts
          /\ UNCHANGED subs
  /\ UNCHANGED <<bMounted, loadingInitial, menuItemsRef, procVars>>
  /\ UNCHANGED <<store, omVars, barViewVars, gridVars, loadVars, viewVars>>

\* lines 288-291 and 300-306: the debounce timer fires; callback(orders)
\* hands the snapshot to the processing function
DebounceFire(g) ==
  /\ TimerDue(subs[g])
  /\ IF ~subs[g].isSubscribed
     THEN /\ subs' = [subs EXCEPT ![g].debounceTimeout = <<>>, ![g].late = TRUE]
          /\ UNCHANGED procVars
     ELSE /\ subs' = [subs EXCEPT
                 ![g].debounceTimeout = <<>>,
                 ![g].burstCallbacks =
                    IF Len(@) >= 2 THEN @
                    ELSE Append(@, [orders |-> subs[g].debounceTimeout[1].orders,
                                    age |-> subs[g].lastSnapshot[1].age])]
          /\ IF menuItemsRef = <<>>
             THEN UNCHANGED procVars
             ELSE processOrdersWithMenuItems(subs[g].debounceTimeout[1].orders, menuItemsRef)
  /\ UNCHANGED <<bMounted, loadingInitial, menuItemsRef, barToasts>>
  /\ UNCHANGED <<store, omVars, barViewVars, gridVars, loadVars, viewVars>>

SnapshotPushed == \E g \in Subs, orderSeq \in Snapshots : OnSnapshot(g, orderSeq)

ListenerFailed == \E g \in Subs : OnListenerError(g)

DebounceElapsed == \E g \in Subs : DebounceFire(g)

\* lines 156-158: the reset timer fires
ProcessingResetFire ==
  /\ processingReset = <<0>>
  /\ isProcessingRef' = FALSE
  /\ processingReset' = <<>>
  /\ UNCHANGED <<lastProcessedOrdersRef, drinkOrders, shishaOrders, setCalls, lastProcess>>
  /\ UNCHANGED <<bMounted, loadingInitial, menuItemsRef, barToasts, subs>>
  /\ UNCHANGED <<store, omVars, barViewVars, gridVars, loadVars, viewVars>>

\* a running timer or a snapshot whose age is still counted
Ageing(sub) ==
  \/ sub.debounceTimeout # <<>>
  \/ sub.lastSnapshot # <<>> /\ sub.lastSnapshot[1].age <= DebounceDelay

\* TimeStep ms pass for one subscription
Aged(sub) ==
  [sub EXCEPT
     !.debounceTimeout =
        IF @ = <<>> THEN @ ELSE <<[@[1] EXCEPT !.remaining = @ - TimeStep]>>,
     !.lastSnapshot =
        IF @ = <<>> \/ @[1].age > DebounceDelay THEN @
        ELSE <<[@[1] EXCEPT !.age = @ + TimeStep]>>]

\* TimeStep ms pass; no timer is due
Tick ==
  /\ processingReset # <<0>>
  /\ \A g \in Subs : ~TimerDue(subs[g])
  /\ processingReset # <<>> \/ \E g \in Subs : Ageing(subs[g])
  /\ processingReset' =
       IF processingReset = <<>> THEN <<>> ELSE <<processingReset[1] - TimeStep>>
  /\ subs' = [g \in Subs |-> Aged(subs[g])]
  /\ UNCHANGED <<isProcessingRef, lastProcessedOrdersRef, drinkOrders, shishaOrders,
                 setCalls, lastProcess>>
  /\ UNCHANGED <<bMounted, loadingInitial, menuItemsRef, barToasts>>
  /\ UNCHANGED <<store, omVars, barViewVars, gridVars, loadVars, viewVars>>

\* BarOperations right after its first render, the initial load in flight
RtInit ==
  /\ bMounted = TRUE
  /\ loadingInitial = TRUE
  /\ menuItemsRef = <<>>
  /\ isProcessingRef = FALSE
  /\ processingReset = <<>>
  /\ lastProcessedOrdersRef = <<>>
  /\ drinkOrders = <<>>
  /\ shishaOrders = <<>>
  /\ setCalls = 0
  /\ barToasts = 0
  /\ subs = [g \in Subs |-> NoSub]
  /\ lastProcess = "none"

-----------------------------------------------------------------------------
(* Bounds of the snapshots the classifiers are applied to.                 *)

MaxGridOrders == 2

\* table numbers used as the join key between tables and orders
TableNumbers == {1, 2}

\* the table lists of a snapshot: table numbers are unique
TableLists == {<<>>, <<[number |-> 1]>>, <<[number |-> 1], [number |-> 2]>>}

\* seated reservations returned by getReservations({status: "seated"})
ReservationLists == {<<>>, <<[tableNumber |-> 1]>>}

\* payment.amount of an order with a payment record, and totalAmount
PaymentAmount == 1
TotalAmount == 2

\* 2 * 60 * 60 * 1000 ms, in the model's time unit (one hour)
TwoHours == 2

GridOrderBase ==
  [tableNumber : TableNumbers, status : OrderStatuses, payment : PaymentStatuses]

\* the i-th order of a snapshot was created at hour i
MkGridOrder(b, i) ==
  [tableNumber |-> b.tableNumber, status |-> b.status, payment |-> b.payment,
   amount |-> PaymentAmount, totalAmount |-> TotalAmount, createdAt |-> i]

\* the order list of a snapshot, from the attributes of its orders
GridOrderList(f) == [i \in DOMAIN f |-> MkGridOrder(f[i], i)]

\* the instants at which calculateTableStatuses reads the clock
GridNows == {MaxGridOrders, MaxGridOrders + 1}

-----------------------------------------------------------------------------
(* processTableData, SimpleLiveTableGrid.tsx 262-342.                      *)

\* mutant of AmountOrTotal: the amount of the payment record is ignored
AmountOrTotal_TotalOnly(o) == o.totalAmount

\* o.payment?.amount ?? o.totalAmount ?? 0
AmountOrTotal(o) == IF o.payment # "none" THEN o.amount ELSE o.totalAmount

\* ordersMap.get(table.number) || []
OrdersOfTable(orderList, n) ==
  FilterSeq(orderList, {o \in SeqRange(orderList) : o.tableNumber = n})

\* seatedMap.get(table.number)
SeatedMapHas(reservations, n) ==
  \E i \in 1..Len(reservations) : reservations[i].tableNumber = n

GridIsOpenBill(tableOrders) ==
  \E i \in 1..Len(tableOrders) : tableOrders[i].payment # "paid"

\* mutant of GridHasActiveOrder: an order that is ready no longer counts as active
GridHasActiveOrder_ReadyFree(tableOrders) ==
  \E i \in 1..Len(tableOrders) :
     tableOrders[i].status \in {"pending", "confirmed", "preparing"}

GridHasActiveOrder(tableOrders) ==
  \E i \in 1..Len(tableOrders) :
     tableOrders[i].status # "cancelled" /\ tableOrders[i].status # "delivered"

GridUnpaidAmount(tableOrders) ==
  SumSeq(MapSeq(FilterSeq(tableOrders,
                          {o \in SeqRange(tableOrders) : o.payment # "paid"}),
                AmountOrTotal))

\* mutant of GridStatusType: the active order is tested before the open bill
GridStatusType_ActiveFirst(isOpenBill, hasActiveOrder, isSeated) ==
  IF hasActiveOrder THEN "active_order"
  ELSE IF isOpenBill THEN "open_bill"
  ELSE IF isSeated THEN "seated"
  ELSE "available"

GridStatusType(isOpenBill, hasActiveOrder, isSeated) ==
  IF isOpenBill THEN "open_bill"
  ELSE IF hasActiveOrder THEN "active_order"
  ELSE IF isSeated THEN "seated"
  ELSE "available"

\* one element of tableStatuses; orderAmount is <<>> for undefined
GridTableStatus(table, orderList, reservations) ==
  LET tableOrders == OrdersOfTable(orderList, table.number)
      hasActiveOrder == GridHasActiveOrder(tableOrders)
      isOpenBill == GridIsOpenBill(tableOrders)
      unpaidAmount == GridUnpaidAmount(tableOrders)
      isSeated == SeatedMapHas(reservations, table.number)
  IN [table |-> table,
      hasActiveOrder |-> hasActiveOrder,
      isOpenBill |-> isOpenBill,
      isSeated |-> isSeated,
      statusType |-> GridStatusType(isOpenBill, hasActiveOrder, isSeated),
      orderAmount |-> IF unpaidAmount > 0 THEN <<unpaidAmount>> ELSE <<>>]

\* mutant of processTableData: totalRevenue sums the amounts of all the orders
processTableData_RevenueOfAll(tables, orderList, reservations) ==
  LET tableStatuses ==
        [i \in 1..Len(tables) |-> GridTableStatus(tables[i], orderList, reservations)]
      totalTables == Len(tables)
      IsAvailable(t) == t.statusType = "available"
      IsOpenBillStatus(t) == t.statusType = "open_bill"
      available == CountSeq(tableStatuses, IsAvailable)
  IN [tableStatuses |-> tableStatuses,
      stats |-> [totalTables |-> totalTables,
                 available |-> available,
                 occupied |-> totalTables - available,
                 openBills |-> CountSeq(tableStatuses, IsOpenBillStatus),
                 totalRevenue |-> SumSeq(MapSeq(orderList, AmountOrTotal))]]

processTableData(tables, orderList, reservations) ==
  LET tableStatuses ==
        [i \in 1..Len(tables) |-> GridTableStatus(tables[i], orderList, reservations)]
      totalTables == Len(tables)
      IsAvailable(t) == t.statusType = "available"
      IsOpenBillStatus(t) == t.statusType = "open_bill"
      available == CountSeq(tableStatuses, IsAvailable)
      paid == FilterSeq(orderList, {o \in SeqRange(orderList) : o.payment = "paid"})
  IN [tableStatuses |-> tableStatuses,
      stats |-> [totalTables |-> totalTables,
                 available |-> available,
                 occupied |-> totalTables - available,
                 openBills |-> CountSeq(tableStatuses, IsOpenBillStatus),
                 totalRevenue |-> SumSeq(MapSeq(paid, AmountOrTotal))]]

-----------------------------------------------------------------------------
(* calculateTableStatuses and calculateStats, src/unnamed/part_002 50-108. *)

\* the filter of lines 52-62
\* mutant of SimpleTableOrders: an order in preparation is dropped as well
SimpleTableOrders_PreparingFree(orderList, n) ==
  FilterSeq(orderList,
    {o \in SeqRange(orderList) :
       /\ o.tableNumber = n
       /\ ~(o.status = "delivered" /\ o.payment = "paid")
       /\ (o.status \in {"pending", "confirmed"} \/ o.status = "delivered")})

SimpleTableOrders(orderList, n) ==
  FilterSeq(orderList,
    {o \in SeqRange(orderList) :
       /\ o.tableNumber = n
       /\ ~(o.status = "delivered" /\ o.payment = "paid")
       /\ (o.status \in {"pending", "confirmed", "preparing"} \/ o.status = "delivered")})

RECURSIVE InsertByCreatedAtDesc(_, _)
\* stable insertion: x goes after every element that is not older than it
InsertByCreatedAtDesc(x, s) ==
  IF s = <<>> THEN <<x>>
  ELSE IF Head(s).createdAt >= x.createdAt
       THEN <<Head(s)>> \o InsertByCreatedAtDesc(x, Tail(s))
       ELSE <<x>> \o s

RECURSIVE SortByCreatedAtDesc(_)
\* tableOrders.sort((a, b) => b.createdAt - a.createdAt), a stable sort
SortByCreatedAtDesc(s) ==
  IF s = <<>> THEN <<>>
  ELSE InsertByCreatedAtDesc(s[Len(s)], SortByCreatedAtDesc(SubSeq(s, 1, Len(s) - 1)))

\* orderList of the table delivered, paid and created less than two hours ago
RecentPaid(orderList, n, now) ==
  FilterSeq(orderList,
    {o \in SeqRange(orderList) :
       /\ o.tableNumber = n
       /\ o.status = "delivered"
       /\ o.payment = "paid"
       /\ now - o.createdAt < TwoHours})

\* one element of the result; activeOrder is <<>> when the table has none
SimpleTableStatus(table, orderList, now) ==
  LET sorted == SortByCreatedAtDesc(SimpleTableOrders(orderList, table.number))
      hasOrder == sorted # <<>>
      activeOrder == sorted[1]
      isOpenBill == /\ hasOrder
                    /\ activeOrder.status = "delivered"
                    /\ activeOrder.payment \in {"unpaid", "partial"}
      hasActiveOrder == hasOrder /\ ~isOpenBill
      isSeated == /\ ~hasActiveOrder
                  /\ ~isOpenBill
                  /\ Len(RecentPaid(orderList, table.number, now)) > 0
  IN [table |-> table,
      hasActiveOrder |-> hasActiveOrder,
      orderAmount |-> IF hasOrder THEN <<activeOrder.totalAmount>> ELSE <<>>,
      isOpenBill |-> isOpenBill,
      isSeated |-> isSeated,
      statusType |-> GridStatusType(isOpenBill, hasActiveOrder, isSeated)]

calculateTableStatuses(tables, orderList, now) ==
  [i \in 1..Len(tables) |-> SimpleTableStatus(tables[i], orderList, now)]

\* mutant of calculateStats: available counts the tables whose statusType is
\* available
calculateStats_CountAvailable(statuses) ==
  LET Occupied(s) == s.hasActiveOrder \/ s.isSeated
      Available(s) == s.statusType = "available"
      OpenBill(s) == s.isOpenBill
      AmountOrZero(s) == IF s.orderAmount = <<>> THEN 0 ELSE s.orderAmount[1]
  IN [totalTables |-> Len(statuses),
      occupied |-> CountSeq(statuses, Occupied),
      available |-> CountSeq(statuses, Available),
      openBills |-> CountSeq(statuses, OpenBill),
      totalRevenue |-> SumSeq(MapSeq(statuses, AmountOrZero))]

calculateStats(statuses) ==
  LET Occupied(s) == s.hasActiveOrder \/ s.isSeated
      OpenBill(s) == s.isOpenBill
      AmountOrZero(s) == IF s.orderAmount = <<>> THEN 0 ELSE s.orderAmount[1]
  IN [totalTables |-> Len(statuses),
      occupied |-> CountSeq(statuses, Occupied),
      available |-> Len(statuses) - CountSeq(statuses, Occupied),
      openBills |-> CountSeq(statuses, OpenBill),
      totalRevenue |-> SumSeq(MapSeq(statuses, AmountOrZero))]

-----------------------------------------------------------------------------
(* SpecGrid: a snapshot is drawn, then one of the classifiers runs on it.  *)

NoResult == [tableStatuses |-> <<>>, stats |-> <<>>]

\* the grids are not part of this specification
GridIdle ==
  /\ gPhase = "idle"
  /\ gTables = <<>>
  /\ gOrders = <<>>
  /\ gReservations = <<>>
  /\ gNow = 0
  /\ gResult = NoResult

\* the order views are not part of this specification
OrderViewsIdle ==
  /\ store = [o \in OrderIds |-> [status |-> "pending", isVerified |-> FALSE]]
  /\ OmInit
  /\ BarViewInit
  /\ RtInit
  /\ LoadsIdle
  /\ ViewsIdle

GridInit ==
  /\ OrderViewsIdle
  /\ gPhase = "input"
  /\ gTables \in TableLists
  /\ \E n \in 0..MaxGridOrders :
       \E f \in [1..n -> GridOrderBase] : gOrders = GridOrderList(f)
  /\ gReservations = <<>>
  /\ gNow = 0
  /\ gResult = NoResult

\* loadData of SimpleLiveTableGrid.tsx: processTableData on the fetched data
GridProcess ==
  /\ gPhase = "input"
  /\ \E seated \in ReservationLists :
       /\ gReservations' = seated
       /\ gResult' = processTableData(gTables, gOrders, seated)
  /\ gPhase' = "grid"
  /\ UNCHANGED <<gTables, gOrders, gNow>>
  /\ UNCHANGED <<store, omVars, barViewVars, rtVars, loadVars, viewVars>>

\* loadData when Promise.all rejects: the fetches that answered ok are the
\* flagged ones; the catch block stores the error and nothing else
LoadDataRejected(okTables, okOrders, okSeated) ==
  /\ gPhase = "input"
  /\ ~(okTables /\ okOrders /\ okSeated)
  /\ gPhase' = "failed"
  /\ UNCHANGED <<gTables, gOrders, gReservations, gNow, gResult>>
  /\ UNCHANGED <<store, omVars, barViewVars, rtVars, loadVars, viewVars>>

GridLoadFailed ==
  \E okTables, okOrders, okSeated \in BOOLEAN :
     LoadDataRejected(okTables, okOrders, okSeated)

\* a render of the simple grid: calculateTableStatuses, then calculateStats
SimpleRender ==
  /\ gPhase = "input"
  /\ \E now \in GridNows :
       /\ gNow' = now
       /\ LET statuses == calculateTableStatuses(gTables, gOrders, now)
          IN gResult' = [tableStatuses |-> statuses, stats |-> calculateStats(statuses)]
  /\ gPhase' = "simple"
  /\ UNCHANGED <<gTables, gOrders, gReservations>>
  /\ UNCHANGED <<store, omVars, barViewVars, rtVars, loadVars, viewVars>>

-----------------------------------------------------------------------------
(* Claims about the classifiers (checked under SpecGrid).                  *)

\* the orders of the snapshot that carry table number n
OrdersWithTable(n) == {i \in 1..Len(gOrders) : gOrders[i].tableNumber = n}

\* C4: processTableData classifies a table as open_bill whenever at least
\* one order with that table number has a payment status other than paid
\* (no payment record counts as not paid), whatever the table's other
\* orders and whether or not it has a seated reservation.
C4_OpenBillWhenAnyUnpaid ==
  gPhase = "grid" =>
    \A t \in 1..Len(gTables) :
      (\E i \in OrdersWithTable(gTables[t].number) : gOrders[i].payment # "paid")
        => gResult.tableStatuses[t].statusType = "open_bill"

\* C4 witness: a seated table with a paid, still active order and an unpaid
\* one has been classified open_bill.
C4_Witness ==
  /\ gPhase = "grid"
  /\ \E t \in 1..Len(gTables) :
       /\ \E i \in OrdersWithTable(gTables[t].number) :
            gOrders[i].payment = "paid" /\ gOrders[i].status = "preparing"
       /\ \E i \in OrdersWithTable(gTables[t].number) :
            gOrders[i].payment = "unpaid" /\ gOrders[i].status = "delivered"
       /\ \E r \in 1..Len(gReservations) :
            gReservations[r].tableNumber = gTables[t].number
       /\ gResult.tableStatuses[t].statusType = "open_bill"

\* C5: processTableData classifies a table all of whose orders are paid as
\* active_order if at least one of its orders has status pending,
\* confirmed, preparing or ready.
C5_ActiveOrderWhenAllPaid ==
  gPhase = "grid" =>
    \A t \in 1..Len(gTables) :
      ( /\ \A i \in OrdersWithTable(gTables[t].number) : gOrders[i].payment = "paid"
        /\ \E i \in OrdersWithTable(gTables[t].number) :
             gOrders[i].status \in {"pending", "confirmed", "preparing", "ready"} )
        => gResult.tableStatuses[t].statusType = "active_order"

\* C5 witness: a table whose orders are all paid, one of them ready and one
\* delivered, has been classified active_order.
C5_Witness ==
  /\ gPhase = "grid"
  /\ \E t \in 1..Len(gTables) :
       /\ \A i \in OrdersWithTable(gTables[t].number) : gOrders[i].payment = "paid"
       /\ \E i \in OrdersWithTable(gTables[t].number) : gOrders[i].status = "ready"
       /\ \E i \in OrdersWithTable(gTables[t].number) : gOrders[i].status = "delivered"
       /\ gResult.tableStatuses[t].statusType = "active_order"

\* C6: calculateTableStatuses considers all the orders of a table, not only
\* the most recent one: a table with a delivered order whose payment is
\* unpaid or partial is classified open_bill even when a newer order for
\* the same table exists.
C6_SimpleOpenBillAllOrders ==
  gPhase = "simple" =>
    \A t \in 1..Len(gTables) :
      (\E i \in OrdersWithTable(gTables[t].number) :
          gOrders[i].status = "delivered" /\ gOrders[i].payment \in {"unpaid", "partial"})
        => gResult.tableStatuses[t].statusType = "open_bill"

\* C19: each classifier is a function of its snapshot alone: an evaluation
\* on the same tables, orders and reservations at any other time yields the
\* same statusType for every table and the same stats.
C19_ClassifiersIgnoreClock ==
  /\ gPhase = "grid" => processTableData(gTables, gOrders, gReservations) = gResult
  /\ gPhase = "simple" =>
       \A now \in GridNows :
         LET statuses == calculateTableStatuses(gTables, gOrders, now)
         IN /\ \A t \in 1..Len(gTables) :
                 statuses[t].statusType = gResult.tableStatuses[t].statusType
            /\ calculateStats(statuses) = gResult.stats

\* C20: for every snapshot of tables and orders, in both grid variants,
\* stats.available + stats.occupied = stats.totalTables, and totalTables is
\* the number of tables of the snapshot.
C20_AvailablePlusOccupied ==
  gPhase \in {"grid", "simple"} =>
    /\ gResult.stats.available + gResult.stats.occupied = gResult.stats.totalTables
    /\ gResult.stats.totalTables = Len(gTables)

\* C20 witness: the simple grid has classified two tables, one as open_bill
\* and one as active_order; one table counts as occupied and one as
\* available.
C20_Witness ==
  /\ gPhase = "simple"
  /\ Len(gTables) = 2
  /\ \E t \in 1..2 : gResult.tableStatuses[t].statusType = "open_bill"
  /\ \E t \in 1..2 : gResult.tableStatuses[t].statusType = "active_order"
  /\ gResult.stats.occupied = 1
  /\ gResult.stats.available = 1

RECURSIVE SumOfAmounts(_)
\* the sum, over the orders of the snapshot with index in I, of the amount of
\* the payment record, or of totalAmount for an order without one
SumOfAmounts(I) ==
  IF I = {} THEN 0
  ELSE LET i == CHOOSE j \in I : TRUE
       IN (IF gOrders[i].payment = "none" THEN gOrders[i].totalAmount
           ELSE gOrders[i].amount)
          + SumOfAmounts(I \ {i})

\* the orders of table number n that are paid, and those that are not
PaidOrdersOf(n) == {i \in OrdersWithTable(n) : gOrders[i].payment = "paid"}

UnpaidOrdersOf(n) == {i \in OrdersWithTable(n) : gOrders[i].payment # "paid"}

\* C21: processTableData reports as orderAmount of a table the sum, over all
\* orders of that table whose payment status is not paid, of payment.amount,
\* or of totalAmount when the order has no payment record; orderAmount is
\* absent when that sum is 0.
C21_OutstandingAmount ==
  gPhase = "grid" =>
    \A t \in 1..Len(gTables) :
      LET due == SumOfAmounts(UnpaidOrdersOf(gTables[t].number))
      IN gResult.tableStatuses[t].orderAmount = IF due = 0 THEN <<>> ELSE <<due>>

\* C21 witness: a table with an unpaid order that has a payment record, an
\* order without payment record and nothing else shows the sum of the
\* payment amount and the total amount.
C21_Witness ==
  /\ gPhase = "grid"
  /\ \E t \in 1..Len(gTables) :
       /\ \E i \in OrdersWithTable(gTables[t].number) : gOrders[i].payment = "unpaid"
       /\ \E i \in OrdersWithTable(gTables[t].number) : gOrders[i].payment = "none"
       /\ gResult.tableStatuses[t].orderAmount = <<PaymentAmount + TotalAmount>>

\* the sum over the tables of the snapshot of their realized (paid) amounts
RECURSIVE RealizedOfTables(_)
RealizedOfTables(t) ==
  IF t = 0 THEN 0
  ELSE SumOfAmounts(PaidOrdersOf(gTables[t].number)) + RealizedOfTables(t - 1)

\* the paid orders of the snapshot
PaidOrders == {i \in 1..Len(gOrders) : gOrders[i].payment = "paid"}

\* C22 as stated: stats.totalRevenue of processTableData is the sum of
\* payment.amount (falling back to totalAmount) over all paid orders of the
\* input, and it equals the sum of the realized amounts of the tables of
\* the snapshot.
C22_RevenueIsSumOfTables ==
  gPhase = "grid" =>
    /\ gResult.stats.totalRevenue = SumOfAmounts(PaidOrders)
    /\ gResult.stats.totalRevenue = RealizedOfTables(Len(gTables))

\* C22 amended: stats.totalRevenue of processTableData is the sum of
\* payment.amount (falling back to totalAmount) over all paid orders of the
\* input; it equals the sum of the realized amounts of the tables of the
\* snapshot when every paid order carries the number of one of these tables.
C22_RevenueOfPaidOrders ==
  gPhase = "grid" =>
    /\ gResult.stats.totalRevenue = SumOfAmounts(PaidOrders)
    /\ (\A i \in PaidOrders :
          \E t \in 1..Len(gTables) : gTables[t].number = gOrders[i].tableNumber)
         => gResult.stats.totalRevenue = RealizedOfTables(Len(gTables))

\* C22 witness: two tables, a paid order and an unpaid order, each for one
\* of them; the revenue is the amount of the paid order.
C22_Witness ==
  /\ gPhase = "grid"
  /\ Len(gTables) = 2
  /\ Len(gOrders) = 2
  /\ gOrders[1].tableNumber # gOrders[2].tableNumber
  /\ gOrders[1].payment = "paid"
  /\ gOrders[2].payment = "unpaid"
  /\ gResult.stats.totalRevenue = PaymentAmount

\* C23: totalRevenue of the simple grid's calculateStats is the realized
\* revenue, the sum of the amounts of the paid orders of the tables; orders
\* that are unpaid or still active contribute nothing.
C23_SimpleRevenueIsRealized ==
  gPhase = "simple" =>
    gResult.stats.totalRevenue = RealizedOfTables(Len(gTables))

\* C24: processTableData classifies a table without open bill and without
\* active order as seated if it has a seated reservation or a paid,
\* delivered order of the last two hours, and as available only when it
\* has neither; the order is recent at every instant of the load.
C24_SeatedByRecentPaidOrder ==
  gPhase = "grid" =>
    \A t \in 1..Len(gTables) :
      LET s == gResult.tableStatuses[t]
          n == gTables[t].number
      IN (~s.isOpenBill /\ ~s.hasActiveOrder) =>
           /\ (\/ SeatedMapHas(gReservations, n)
               \/ \A now \in GridNows : RecentPaid(gOrders, n, now) # <<>>)
                => s.statusType = "seated"
           /\ s.statusType = "available" =>
                /\ ~SeatedMapHas(gReservations, n)
                /\ \E now \in GridNows : RecentPaid(gOrders, n, now) = <<>>

TablesOfType(types) ==
  {t \in 1..Len(gResult.tableStatuses) : gResult.tableStatuses[t].statusType \in types}

\* C39: in both grid variants stats.available is the number of tables whose
\* statusType is available and stats.occupied is the number of tables whose
\* statusType is seated, active_order or open_bill.
C39_StatsCountStatusTypes ==
  gPhase \in {"grid", "simple"} =>
    /\ gResult.stats.available = Cardinality(TablesOfType({"available"}))
    /\ gResult.stats.occupied
         = Cardinality(TablesOfType({"seated", "active_order", "open_bill"}))

vars == <<store, omVars, barViewVars, gridVars, rtVars, loadVars, viewVars>>

GridNext == GridProcess \/ GridLoadFailed \/ SimpleRender

SpecGrid == GridInit /\ [][GridNext]_vars

\* C30: when one of the three parallel fetches of loadData fails (here the
\* seated reservations), the data of the other two is not discarded: the
\* table statuses are computed from the tables and the orders obtained.
C30_PartialDataKept ==
  [][LoadDataRejected(TRUE, TRUE, FALSE) =>
       gResult'.tableStatuses = processTableData(gTables, gOrders, <<>>).tableStatuses]_vars

Init ==
  /\ store \in StoreInit
  /\ OmInit
  /\ BarViewInit
  /\ GridIdle
  /\ RtInit
  /\ LoadsIdle
  /\ ViewsIdle

Next ==
  \/ ClickUpdate
  \/ ClickDelete
  \/ ClickVerify
  \/ ClickDetails
  \/ CloseDetails
  \/ WriteSettled
  \/ ReloadOrdersSettled
  \/ ReloadStatsSettled
  \/ LoadDataSettled
  \/ Unmount

Spec == Init /\ [][Next]_vars

\* the store answers every call: a write in flight is answered, and so are
\* the two reloads that follow a successful write
StoreAnswers ==
  /\ WF_vars(WriteSettled)
  /\ WF_vars(ReloadOrdersSettled)
  /\ WF_vars(ReloadStatsSettled)

SpecLive == Spec /\ StoreAnswers

\* SpecSessions: the OrderManagement view and a BarOperations session
\* acting on the same orders
SessionsNext ==
  \/ ClickUpdate
  \/ ClickDelete
  \/ WriteSettled
  \/ ReloadOrdersSettled
  \/ ReloadStatsSettled
  \/ LoadDataSettled
  \/ BarListenerUpdate
  \/ handleStartPreparing
  \/ handleCompleteItem
  \/ BarWriteSettled

SpecSessions == Init /\ [][SessionsNext]_vars

-----------------------------------------------------------------------------
(* SpecBarSession: the cards of the bar view with several orders on        *)
(* display and nobody else writing to the store.                           *)

\* orders on display in the bar view
MaxBarOrders == 2

\* the bar view opens on orders that are pending or already confirmed
BarSessionInit ==
  /\ store \in [1..MaxBarOrders ->
                  [status : {"pending", "confirmed"}, isVerified : {FALSE}]]
  /\ OmInit
  /\ BarViewInit
  /\ GridIdle
  /\ RtInit
  /\ LoadsIdle
  /\ ViewsIdle

BarSessionNext ==
  \/ BarListenerUpdate
  \/ handleStartPreparing
  \/ handleCompleteItem
  \/ BarWriteSettled

SpecBarSession == BarSessionInit /\ [][BarSessionNext]_vars

-----------------------------------------------------------------------------
(* Claims about OrderManagement (checked under Spec) and about the two     *)
(* order views sharing the store (checked under SpecSessions).             *)

\* C1: in OrderManagement at most one lifecycle store write
\* (updateOrderStatus, deleteOrder or verifyLoyaltyDiscount) is in flight
\* at any time: a handler invoked while another write is in flight issues
\* no store call.
C1_SingleWriteInFlight == Cardinality(WritesInFlight) <= 1

\* C1 witness: verifyLoyaltyDiscount was the last handler invoked, and the
\* only write in flight is the status update issued before it.
C1_Witness ==
  /\ lastCall.fn = "verifyLoyaltyDiscount"
  /\ \E s \in OpSlots :
       /\ ops[s].kind = "update"
       /\ WritesInFlight = {s}

\* a step in which deleteOrder is invoked for order o
DeleteOrderCalled(o) ==
  \E confirm1 \in BOOLEAN, confirm2 \in BOOLEAN : deleteOrder(o, confirm1, confirm2)

\* C2: deleteOrder invoked on an order whose status in the view's order
\* list is not pending issues no store delete, raises an error
\* notification and leaves orders, stats and isUpdating unchanged.
C2_DeleteRejectedUnlessPending ==
  [][\A o \in DOMAIN orders :
       (orders[o].status # "pending" /\ DeleteOrderCalled(o))
         => /\ ops' = ops
            /\ store' = store
            /\ toasts'.error # toasts.error
            /\ orders' = orders
            /\ stats' = stats
            /\ isUpdating' = isUpdating]_vars

\* C2 witness: deleteOrder was invoked last, on an order the list shows as
\* cancelled, with no operation in progress; the order is still in the
\* store and the error toast has been raised.
C2_Witness ==
  \E o \in DOMAIN orders :
    /\ orders[o].status = "cancelled"
    /\ lastCall = [fn |-> "deleteOrder", id |-> o]
    /\ store[o].status = "cancelled"
    /\ toasts = [error |-> 1, success |-> 0]
    /\ ~isUpdating
    /\ \A s \in OpSlots : ops[s] = NoOp

\* the position of a status in the chain pending, confirmed, preparing,
\* ready, delivered (0 for a status outside the chain)
StatusRank(status) ==
  CASE status = "pending" -> 1
    [] status = "confirmed" -> 2
    [] status = "preparing" -> 3
    [] status = "ready" -> 4
    [] status = "delivered" -> 5
    [] OTHER -> 0

\* C3: for every order, across all interleavings of the status writes of
\* the admin views, the status held in the store only moves forward in the
\* chain pending, confirmed, preparing, ready, delivered.
C3_StoreStatusOnlyForward ==
  [][\A o \in OrderIds :
       (StatusRank(store[o].status) > 0 /\ StatusRank(store'[o].status) > 0)
         => StatusRank(store'[o].status) >= StatusRank(store[o].status)]_vars

\* C10: a store response that completes after the OrderManagement view has
\* been unmounted updates none of orders, stats, loading and isUpdating and
\* raises no notification.
C10_NoEffectAfterUnmount ==
  [][~mounted =>
       /\ orders' = orders
       /\ stats' = stats
       /\ loading' = loading
       /\ isUpdating' = isUpdating
       /\ toasts' = toasts]_vars

\* a handler returned at a guard after toast.error: no store call was
\* issued and orders, stats and isUpdating are as they were
RejectedWithError ==
  /\ ops' = ops
  /\ store' = store
  /\ orders' = orders
  /\ stats' = stats
  /\ isUpdating' = isUpdating
  /\ toasts'.error # toasts.error
  /\ toasts'.success = toasts.success

\* C11 as stated: updateOrderStatus, deleteOrder or verifyLoyaltyDiscount
\* invoked while isUpdating is true is rejected before any store call:
\* orders, stats and isUpdating keep their values and an error notification
\* is raised.
C11_BusyCallRaisesError ==
  [][isUpdating =>
       /\ \A o \in OrderIds, newStatus \in OrderStatuses :
            updateOrderStatus(o, newStatus) => RejectedWithError
       /\ \A o \in OrderIds : verifyLoyaltyDiscount(o) => RejectedWithError
       /\ \A o \in OrderIds : DeleteOrderCalled(o) => RejectedWithError]_vars

\* C11 amended: updateOrderStatus or verifyLoyaltyDiscount invoked while
\* isUpdating is true is rejected before any store call, with orders, stats
\* and isUpdating unchanged and an error notification raised; deleteOrder
\* invoked while isUpdating is true on an order of the list issues no store
\* call and leaves orders, stats and isUpdating unchanged, and raises an
\* error notification unless the order is pending and the first
\* confirmation prompt is declined.
C11_BusyCallRejected ==
  [][isUpdating =>
       /\ \A o \in OrderIds, newStatus \in OrderStatuses :
            updateOrderStatus(o, newStatus) => RejectedWithError
       /\ \A o \in OrderIds : verifyLoyaltyDiscount(o) => RejectedWithError
       /\ \A o \in DOMAIN orders, confirm1 \in BOOLEAN, confirm2 \in BOOLEAN :
            deleteOrder(o, confirm1, confirm2) =>
              IF confirm1 \/ ~canDeleteOrder(orders[o])
              THEN RejectedWithError
              ELSE /\ ops' = ops
                   /\ store' = store
                   /\ orders' = orders
                   /\ stats' = stats
                   /\ isUpdating' = isUpdating
                   /\ toasts' = toasts]_vars

\* C11 witness: while the status update of a pending order is in flight,
\* verifyLoyaltyDiscount was invoked from the details dialog and the error
\* toast was raised; the update is still the only call in flight.
C11_Witness ==
  /\ isUpdating
  /\ lastCall.fn = "verifyLoyaltyDiscount"
  /\ toasts = [error |-> 1, success |-> 0]
  /\ selectedOrder # <<>>
  /\ \E s \in OpSlots :
       /\ ops[s].kind = "update"
       /\ ops[s].phase = "write"
       /\ \A t \in OpSlots \ {s} : ops[t] = NoOp

\* a step that settles a load of the order list: the loadData of the mount
\* effect, or the loadOrders called by a lifecycle handler
OrdersLoadSettles ==
  \/ initLoad = "pending" /\ initLoad' = "done"
  \/ \E s \in OpSlots :
       /\ ops[s].phase = "reload"
       /\ ops[s].ordersPending
       /\ ops'[s] = NoOp \/ ~ops'[s].ordersPending

C13_ReloadBeforeRelease ==
  /\ [](\A s \in OpSlots : ops[s].phase \in {"write", "reload"} => isUpdating)
  /\ [][\A s \in OpSlots :
          (mounted /\ WriteAnswered(s, TRUE)) =>
            /\ ops'[s].phase = "reload"
            /\ ops'[s].ordersPending
            /\ ops'[s].statsPending
            /\ isUpdating']_vars

\* C13 witness: after a successful status update the order list has been
\* reloaded and shows the new status, the statistics are still being
\* loaded, and isUpdating is still set.
C13_Witness ==
  /\ mounted
  /\ isUpdating
  /\ \E s \in OpSlots :
       /\ ops[s].kind = "update"
       /\ ops[s].phase = "reload"
       /\ ~ops[s].ordersPending
       /\ ops[s].statsPending
       /\ ops[s].id \in DOMAIN orders
       /\ orders[ops[s].id].status = ops[s].newStatus

\* C14: in every interleaving of two admin sessions acting on the same
\* order, each checking deletability against its own last-loaded list, a
\* delete reaches the store only for an order whose status in the store at
\* that moment is pending or cancelled.
C14_DeleteOnlyPendingOrCancelled ==
  [][\A o \in OrderIds :
       (store[o].status # "deleted" /\ store'[o].status = "deleted")
         => store[o].status \in {"pending", "cancelled"}]_vars

\* C15: a cancelled order shown in the completed tab can be purged: its
\* delete action, invoked with no operation in progress and with the
\* confirmation prompts accepted, results in OrderService.deleteOrder being
\* called for that order.
C15_CancelledOrderPurged ==
  [][\A o \in DOMAIN orders :
       (orders[o].status = "cancelled" /\ ~isUpdating /\ deleteOrder(o, TRUE, TRUE))
         => \E s \in OpSlots :
              /\ ops[s] = NoOp
              /\ ops'[s].kind = "delete"
              /\ ops'[s].id = o
              /\ ops'[s].phase = "write"]_vars

\* C16: delivered and cancelled are terminal: once an order's status in the
\* store is delivered or cancelled, no status write issued by an admin view
\* (OrderManagement or BarOperations, possibly acting on a stale local list)
\* changes it to a different status.
C16_TerminalStatusKept ==
  [][\A o \in OrderIds :
       (store[o].status \in {"delivered", "cancelled"} /\ store'[o].status # "deleted")
         => store'[o].status = store[o].status]_vars

\* C17: for every order carrying a loyalty discount, once isVerified is true
\* it never becomes false again under any sequence of admin actions (status
\* transition, delete attempt, loyalty verification, reload), neither in the
\* store nor in the order list of the view.
C17_VerifiedStaysVerified ==
  [][\A o \in OrderIds :
       /\ store[o].isVerified => store'[o].isVerified
       /\ (o \in DOMAIN orders /\ o \in DOMAIN orders' /\ orders[o].isVerified)
            => orders'[o].isVerified]_vars

\* C17 witness: an order whose discount was verified has since been moved
\* to confirmed by a status update, the list has been reloaded, and the
\* order is verified in the store and in the list.
C17_Witness ==
  \E o \in DOMAIN orders :
    /\ store[o] = [status |-> "confirmed", isVerified |-> TRUE]
    /\ orders[o] = store[o]
    /\ lastCall = [fn |-> "updateOrderStatus", id |-> o]

\* lines 930-939: the details dialog offers the verify button for order o
VerifyOffered(o) ==
  /\ ViewShown
  /\ selectedOrder # <<>>
  /\ selectedOrder[1].id = o
  /\ ~selectedOrder[1].isVerified

\* C18: a loyalty discount is confirmed once: once the verification of an
\* order has succeeded, OrderManagement issues no further
\* OrderService.verifyLoyaltyDiscount for it, and once the reloaded list
\* shows the order as verified the details dialog no longer offers the
\* verify action for it.
C18_VerifiedOnce ==
  /\ [](\A o \in DOMAIN orders : orders[o].isVerified => ~VerifyOffered(o))
  /\ [][\A o \in OrderIds :
          (store[o].isVerified /\ verifyLoyaltyDiscount(o)) => ops' = ops]_vars

\* C26: in the initial load of OrderManagement the answers of the orders
\* fetch and of the statistics fetch are evaluated independently: while the
\* view is mounted, orders become the fetched list exactly when the orders
\* fetch succeeded and are left as they were otherwise, and stats become the
\* fetched statistics exactly when the statistics fetch succeeded and are
\* left as they were otherwise, whatever the outcome of the other fetch.
C26_FetchesEvaluatedIndependently ==
  [][\A okOrders, okStats \in BOOLEAN :
       (mounted /\ LoadDataAnswered(okOrders, okStats)) =>
         /\ orders' = IF okOrders THEN getOrdersWithFilters(store) ELSE orders
         /\ stats' = IF okStats THEN <<getOrderStats(store)>> ELSE stats]_vars

\* C26 witness: the initial load is over, the orders fetch succeeded and the
\* statistics fetch failed: the list is shown without error message while
\* the statistics are still missing.
C26_Witness ==
  /\ initLoad = "done"
  /\ mounted
  /\ lastCall = NoCall
  /\ orders # <<>>
  /\ orders = getOrdersWithFilters(store)
  /\ stats = <<>>
  /\ toasts.error = 0

\* C28: every status write issued by OrderManagement or by BarOperations for
\* an order displayed with status s targets the immediate successor of s in
\* the chain pending, confirmed, preparing, ready, delivered; none is issued
\* for an order displayed as delivered or cancelled.
C28_WritesTargetSuccessor ==
  [][/\ \A w \in barWrites' \ barWrites :
          /\ w.id \in DOMAIN barOrders
          /\ StatusRank(barOrders[w.id]) \in 1..4
          /\ StatusRank(w.newStatus) = StatusRank(barOrders[w.id]) + 1
     /\ \A s \in OpSlots :
          (ops[s].kind = "idle" /\ ops'[s].kind = "update") =>
             /\ ops'[s].id \in DOMAIN orders
             /\ StatusRank(orders[ops'[s].id].status) \in 1..4
             /\ StatusRank(ops'[s].newStatus)
                  = StatusRank(orders[ops'[s].id].status) + 1]_vars

\* C29: in BarOperations, while one status write is in flight, a second
\* lifecycle action on any order of the view is rejected: it issues no store
\* call.
C29_SecondActionRejected ==
  [][barWrites # {} => barWrites' \subseteq barWrites]_vars

\* the orders with a status write of the bar view in flight
BarWritesInFlightFor(o) == {w \in barWrites : w.id = o}

\* C37: in BarOperations at most one status write per order is in flight at
\* a time, and completingOrders contains an id exactly while a write for
\* that order is in flight (the id is removed when the write succeeds and
\* when it fails); a handler that runs issues a write for an order that has
\* none in flight.
C37_OneWritePerOrder ==
  /\ [](\A o \in DOMAIN store :
          /\ Cardinality(BarWritesInFlightFor(o)) <= 1
          /\ o \in completingOrders <=> BarWritesInFlightFor(o) # {})
  /\ [][(handleStartPreparing \/ handleCompleteItem) =>
          \E o \in DOMAIN store :
            /\ BarWritesInFlightFor(o) = {}
            /\ Cardinality(barWrites') = Cardinality(barWrites) + 1
            /\ \A w \in barWrites' \ barWrites : w.id = o]_vars

\* C37 witness: the write for one order has been answered and its id
\* removed while the write for the other order is still in flight.
C37_Witness ==
  /\ Cardinality(barWrites) = 1
  /\ \E w \in barWrites : completingOrders = {w.id}
  /\ \E o \in DOMAIN store :
       /\ o \notin completingOrders
       /\ store[o].status \in {"preparing", "ready"}

\* a store call is issued by the step
StoreCallIssued == \E s \in OpSlots : ops[s].phase # "write" /\ ops'[s].phase = "write"

\* a confirmation prompt of deleteOrder was shown and declined: the first
\* one, asked for an order deleteOrder accepts, or the second one, asked
\* when no operation is in progress
PromptDeclined(o, confirm1, confirm2) ==
  /\ o \in DOMAIN orders
  /\ canDeleteOrder(orders[o])
  /\ ~confirm1 \/ (~IsBusy /\ ~confirm2)

\* C38 as stated: deleteOrder reaches the store only if the order is in the
\* local list with status pending, no operation is in progress and the user
\* accepted both confirmation prompts; declining either prompt issues no
\* store call and leaves isUpdating false and orders unchanged.
C38_DeclineLeavesIdle ==
  [][\A o \in OrderIds, confirm1, confirm2 \in BOOLEAN :
       deleteOrder(o, confirm1, confirm2) =>
         /\ StoreCallIssued =>
              /\ o \in DOMAIN orders
              /\ orders[o].status = "pending"
              /\ ~isUpdating
              /\ confirm1 /\ confirm2
         /\ PromptDeclined(o, confirm1, confirm2) =>
              /\ ~StoreCallIssued
              /\ store' = store
              /\ isUpdating' = FALSE
              /\ orders' = orders]_vars

\* C38 amended: deleteOrder reaches the store only if the order is in the
\* local list with status pending, no operation is in progress and the user
\* accepted both confirmation prompts; declining either prompt issues no
\* store call and leaves isUpdating and orders unchanged, isUpdating being
\* false unless another operation was in progress when the prompt was
\* declined.
C38_DeclineChangesNothing ==
  [][\A o \in OrderIds, confirm1, confirm2 \in BOOLEAN :
       deleteOrder(o, confirm1, confirm2) =>
         /\ StoreCallIssued =>
              /\ o \in DOMAIN orders
              /\ orders[o].status = "pending"
              /\ ~isUpdating
              /\ confirm1 /\ confirm2
         /\ PromptDeclined(o, confirm1, confirm2) =>
              /\ ~StoreCallIssued
              /\ store' = store
              /\ isUpdating' = isUpdating
              /\ ~IsBusy => isUpdating' = FALSE
              /\ orders' = orders]_vars

\* C38 witness: deleteOrder was invoked last, on a pending order with no
\* operation in progress, and a prompt was declined: no call was issued,
\* no message raised, and the order is still in the list and in the store.
C38_Witness ==
  \E o \in DOMAIN orders :
    /\ orders[o].status = "pending"
    /\ lastCall = [fn |-> "deleteOrder", id |-> o]
    /\ store[o].status = "pending"
    /\ toasts = [error |-> 0, success |-> 0]
    /\ ~isUpdating
    /\ \A s \in OpSlots : ops[s] = NoOp

\* C34: whenever a lifecycle action has set isUpdating and the store answers
\* the write and the reloads that follow it (success or failure), isUpdating
\* returns to false as long as the view stays mounted, so that a later
\* lifecycle action is accepted.
C34_BusyReleased == isUpdating ~> (~isUpdating \/ ~mounted)

\* C34 witness: a lifecycle action went through the store, its success
\* message was raised, its reloads have settled and isUpdating is false
\* again in the mounted view.
C34_Witness ==
  /\ mounted
  /\ ~isUpdating
  /\ lastCall # NoCall
  /\ toasts.success = 1
  /\ \A s \in OpSlots : ops[s] = NoOp

-----------------------------------------------------------------------------
(* SpecLoads: the order-list loads of OrderManagement.  Every change of    *)
(* the filters re-runs the effect of lines 141-190, the refresh button of  *)
(* line 371 calls loadOrders (lines 91-121); each load carries the filters *)
(* of the render that issued it and several can be in flight.              *)

\* order-list loads in one behaviour
MaxLoads == 3

\* the values of the status filter (line 510); "all" stands for no filter
FilterValues == {"all", "pending", "cancelled"}

\* OrderService.getOrdersWithFilters(filters) on the store st
getOrdersWithStatus(st, f) ==
  [o \in {i \in OrderIds : /\ st[i].status # "deleted"
                           /\ (f = "all" \/ st[i].status = f)} |-> st[o]]

\* a load issued with the filters f by the effect or by the refresh button
IssueLoad(f, kind) ==
  /\ issued < MaxLoads
  /\ issued' = issued + 1
  /\ listLoads' = listLoads \cup {[seq |-> issued + 1, filters |-> f, kind |-> kind]}
  /\ latestOutcome' = "pending"
  /\ loading' = TRUE

\* lines 510, 535, 553: setFilters, and the effect of lines 141-190 that
\* runs loadData with the new filters
setFilters(f) ==
  /\ ViewShown
  /\ f # filters
  /\ filters' = f
  /\ IssueLoad(f, "effect")
  /\ UNCHANGED <<store, mounted, isMounted, orders, stats, isUpdating, selectedOrder,
                 toasts, initLoad, ops, lastCall>>
  /\ UNCHANGED <<barViewVars, gridVars, rtVars, viewVars>>

ChangeFilter == \E f \in FilterValues : setFilters(f)

\* line 371 and lines 91-99: the refresh button calls loadOrders
loadOrders ==
  /\ ViewShown
  /\ IssueLoad(filters, "refresh")
  /\ UNCHANGED <<store, mounted, isMounted, orders, stats, isUpdating, selectedOrder,
                 toasts, initLoad, ops, lastCall, filters>>
  /\ UNCHANGED <<barViewVars, gridVars, rtVars, viewVars>>

\* lines 100-120 (loadOrders) and 150-185 (loadData): the response of the
\* load l; okStats is the outcome of getOrderStats, which only the effect
\* requests
ListLoadAnswered(l, okOrders, okStats) ==
  /\ l \in listLoads
  /\ l.kind = "effect" \/ okStats
  /\ listLoads' = listLoads \ {l}
  /\ latestOutcome' = IF l.seq # issued THEN latestOutcome
                      ELSE IF okOrders THEN "ok" ELSE "failed"
  /\ IF ~isMounted
     THEN UNCHANGED <<orders, toasts, stats, loading>>
     ELSE /\ orders' = IF okOrders
                       THEN SetState(orders, getOrdersWithStatus(store, l.filters))
                       ELSE orders
          /\ toasts' = IF okOrders THEN toasts ELSE Toast("error")
          /\ stats' = IF okStats /\ l.kind = "effect"
                      THEN SetState(stats, <<getOrderStats(store)>>) ELSE stats
          /\ loading' = SetState(loading, FALSE)
  /\ UNCHANGED <<store, mounted, isMounted, isUpdating, selectedOrder, initLoad, ops,
                 lastCall, filters, issued>>
  /\ UNCHANGED <<barViewVars, gridVars, rtVars, viewVars>>

ListLoadSettled ==
  \E l \in listLoads : \E okOrders, okStats \in BOOLEAN :
    ListLoadAnswered(l, okOrders, okStats)

\* the component after its first commit: the load of the mount effect is
\* in flight
LoadsInit ==
  /\ store \in StoreInit
  /\ OmInit
  /\ BarViewInit
  /\ GridIdle
  /\ RtInit
  /\ ViewsIdle
  /\ filters = "all"
  /\ listLoads = {[seq |-> 1, filters |-> "all", kind |-> "effect"]}
  /\ issued = 1
  /\ latestOutcome = "pending"

LoadsNext ==
  \/ ChangeFilter
  \/ loadOrders
  \/ ListLoadSettled
  \/ Unmount

SpecLoads == LoadsInit /\ [][LoadsNext]_vars

\* C35: once every order-list load has been answered, the orders shown are
\* the result of the load issued last (which was issued with the current
\* filters), whatever the order of the responses
C35_LatestLoadShown ==
  (mounted /\ listLoads = {} /\ latestOutcome = "ok")
    => orders = getOrdersWithStatus(store, filters)

-----------------------------------------------------------------------------
(* The two table grids as components: their loadData calls, the refresh    *)
(* button and the interval of the grid with reservations                   *)
(* (SimpleLiveTableGrid.tsx 179-387), the subscription of the simple grid  *)
(* (src/unnamed/part_002 43-134).  gTables, gOrders, gReservations and     *)
(* gResult hold the tables, ordersToday / orders, seatedReservations and   *)
(* tableStatuses with stats of the state.  Neither component keeps a       *)
(* mounted flag; a setState of an unmounted component is dropped by the    *)
(* framework.                                                              *)

\* orders the backend receives in one behaviour
MaxViewOrders == 2

\* loadData calls of one component in one behaviour
MaxViewLoads == 3

\* the orders guests place while the grid is shown
PlacedOrderBase ==
  { [tableNumber |-> 1, status |-> "pending", payment |-> "none"],
    [tableNumber |-> 2, status |-> "delivered", payment |-> "unpaid"] }

\* setState of a component that may be gone
VSet(current, value) == IF vMounted THEN value ELSE current

VToast(kind) == [vToasts EXCEPT ![kind] = 1 - @]

\* SimpleLiveTableGrid.tsx 183-189: the initial stats and tableStatuses
InitialResult ==
  [tableStatuses |-> <<>>,
   stats |-> [totalTables |-> 0, available |-> 0, occupied |-> 0, openBills |-> 0,
              totalRevenue |-> 0]]

\* the message handleError returns
ErrorMessage == <<"Fehler beim Laden der Daten">>

\* the subscription of the simple grid is active
Subscribed == gPhase = "simpleView" /\ vMounted

\* a guest places an order; the change feed has a new snapshot for its
\* subscribers
OrderPlaced ==
  /\ Len(vBackend) < MaxViewOrders
  /\ \E b \in PlacedOrderBase :
       vBackend' = Append(vBackend, MkGridOrder(b, Len(vBackend) + 1))
  /\ vPushDue' = Subscribed
  /\ UNCHANGED <<vMounted, vLoading, vError, vLastUpdated, vToasts, vLoads, vIssued>>
  /\ UNCHANGED <<store, omVars, barViewVars, gridVars, rtVars, loadVars>>

\* the cleanup of the effects: the interval is cleared, the subscription
\* is cancelled
ViewUnmount ==
  /\ vMounted
  /\ vMounted' = FALSE
  /\ vPushDue' = FALSE
  /\ UNCHANGED <<vLoading, vError, vLastUpdated, vToasts, vLoads, vIssued, vBackend>>
  /\ UNCHANGED <<store, omVars, barViewVars, gridVars, rtVars, loadVars>>

(* ---- the grid with reservations ---- *)

\* lines 223-224: loadData up to its await
GridLoadIssue(kind) ==
  /\ vMounted
  /\ vIssued < MaxViewLoads
  /\ vIssued' = vIssued + 1
  /\ vLoads' = vLoads \cup {[id |-> vIssued + 1, kind |-> kind]}
  /\ vLoading' = TRUE
  /\ vError' = <<>>

\* lines 379-387: the interval calls loadData
IntervalLoad ==
  /\ gPhase = "gridView"
  /\ GridLoadIssue("plain")
  /\ UNCHANGED <<vMounted, vLastUpdated, vToasts, vBackend, vPushDue>>
  /\ UNCHANGED <<store, omVars, barViewVars, gridVars, rtVars, loadVars>>

\* lines 357-366: the buttons of lines 411 and 441, shown when the view is
\* not loading and has an error or tables
handleRefresh ==
  /\ gPhase = "gridView"
  /\ ~vLoading
  /\ vError # <<>> \/ gTables # <<>>
  /\ GridLoadIssue("refresh")
  /\ vToasts' = VToast("loading")
  /\ UNCHANGED <<vMounted, vLastUpdated, vBackend, vPushDue>>
  /\ UNCHANGED <<store, omVars, barViewVars, gridVars, rtVars, loadVars>>

\* toast.promise of handleRefresh: loadData catches its errors, so the
\* promise is fulfilled either way
RefreshToast(l) == IF l.kind = "refresh" THEN VToast("success") ELSE vToasts

\* mutant of GridLoadFulfilled: the stats are left as they were
GridLoadFulfilled_KeepStats(l, tables, seated) ==
  /\ gPhase = "gridView"
  /\ l \in vLoads
  /\ vLoads' = vLoads \ {l}
  /\ LET processedData == processTableData(tables, vBackend, seated)
     IN /\ gTables' = VSet(gTables, tables)
        /\ gOrders' = VSet(gOrders, vBackend)
        /\ gReservations' = VSet(gReservations, seated)
        /\ gResult' = VSet(gResult, [tableStatuses |-> processedData.tableStatuses,
                                     stats |-> gResult.stats])
  /\ vLoading' = VSet(vLoading, FALSE)
  /\ vLastUpdated' = VSet(vLastUpdated, vLastUpdated + 1)
  /\ vToasts' = RefreshToast(l)
  /\ UNCHANGED <<gPhase, gNow, vMounted, vError, vIssued, vBackend, vPushDue>>
  /\ UNCHANGED <<store, omVars, barViewVars, rtVars, loadVars>>

\* lines 227-251: the three fetches of the load l are fulfilled
GridLoadFulfilled(l, tables, seated) ==
  /\ gPhase = "gridView"
  /\ l \in vLoads
  /\ vLoads' = vLoads \ {l}
  /\ LET processedData == processTableData(tables, vBackend, seated)
     IN /\ gTables' = VSet(gTables, tables)
        /\ gOrders' = VSet(gOrders, vBackend)
        /\ gReservations' = VSet(gReservations, seated)
        /\ gResult' = VSet(gResult, processedData)
  /\ vLoading' = VSet(vLoading, FALSE)
  /\ vLastUpdated' = VSet(vLastUpdated, vLastUpdated + 1)
  /\ vToasts' = RefreshToast(l)
  /\ UNCHANGED <<gPhase, gNow, vMounted, vError, vIssued, vBackend, vPushDue>>
  /\ UNCHANGED <<store, omVars, barViewVars, rtVars, loadVars>>

GridLoadSucceeded ==
  \E l \in vLoads : \E tables \in TableLists : \E seated \in ReservationLists :
     GridLoadFulfilled(l, tables, seated)

\* mutant of GridLoadCaught: the failure empties the tables
GridLoadCaught_ClearTables(l) ==
  /\ gPhase = "gridView"
  /\ l \in vLoads
  /\ vLoads' = vLoads \ {l}
  /\ vLoading' = VSet(vLoading, FALSE)
  /\ vError' = VSet(vError, ErrorMessage)
  /\ gTables' = VSet(gTables, <<>>)
  /\ vToasts' = RefreshToast(l)
  /\ UNCHANGED <<gPhase, gOrders, gReservations, gNow, gResult>>
  /\ UNCHANGED <<vMounted, vLastUpdated, vIssued, vBackend, vPushDue>>
  /\ UNCHANGED <<store, omVars, barViewVars, rtVars, loadVars>>

\* lines 252-258: one of the fetches of the load l is rejected
GridLoadCaught(l) ==
  /\ gPhase = "gridView"
  /\ l \in vLoads
  /\ vLoads' = vLoads \ {l}
  /\ vLoading' = VSet(vLoading, FALSE)
  /\ vError' = VSet(vError, ErrorMessage)
  /\ vToasts' = RefreshToast(l)
  /\ UNCHANGED gridVars
  /\ UNCHANGED <<vMounted, vLastUpdated, vIssued, vBackend, vPushDue>>
  /\ UNCHANGED <<store, omVars, barViewVars, rtVars, loadVars>>

GridLoadRejected == \E l \in vLoads : GridLoadCaught(l)

\* lines 179-195 and 374-376: the state after the first commit, the
\* loadData of the mount effect in flight
GridViewInit ==
  /\ store = [o \in OrderIds |-> [status |-> "pending", isVerified |-> FALSE]]
  /\ OmInit
  /\ BarViewInit
  /\ RtInit
  /\ LoadsIdle
  /\ gPhase = "gridView"
  /\ gTables = <<>>
  /\ gOrders = <<>>
  /\ gReservations = <<>>
  /\ gNow = 0
  /\ gResult = InitialResult
  /\ vMounted = TRUE
  /\ vLoading = TRUE
  /\ vError = <<>>
  /\ vLastUpdated = 0
  /\ vToasts = [error |-> 0, success |-> 0, loading |-> 0]
  /\ vLoads = {[id |-> 1, kind |-> "plain"]}
  /\ vIssued = 1
  /\ vBackend = <<>>
  /\ vPushDue = FALSE

GridViewNext ==
  \/ IntervalLoad
  \/ handleRefresh
  \/ GridLoadSucceeded
  \/ GridLoadRejected
  \/ OrderPlaced
  \/ ViewUnmount

SpecGridView == GridViewInit /\ [][GridViewNext]_vars

\* C31: a failed load of the grid with reservations leaves tables,
\* ordersToday, seatedReservations, tableStatuses, stats and lastUpdated as
\* they were; loading becomes false and error is set
C31_FailedLoadKeepsData ==
  [][GridLoadRejected =>
       /\ UNCHANGED <<gTables, gOrders, gReservations, gResult, vLastUpdated>>
       /\ vMounted => (~vLoading' /\ vError' # <<>>)]_vars

\* a load failed after another had filled the grid
C31_Witness ==
  /\ vMounted
  /\ vError # <<>>
  /\ ~vLoading
  /\ vLastUpdated >= 1
  /\ gTables # <<>>
  /\ gOrders # <<>>

\* C32: in every state of the grid with reservations tableStatuses and
\* stats are processTableData of the stored tables, ordersToday and
\* seatedReservations
C32_DerivedFieldsInStep ==
  gResult = processTableData(gTables, gOrders, gReservations)

\* two loads have stored their data and none is in flight
C32_Witness ==
  /\ vLastUpdated >= 2
  /\ vLoads = {}
  /\ \E l \in 1..2 : Len(gTables) = l /\ Len(gOrders) # 0 /\ gReservations # <<>>
  /\ gResult.stats.totalTables = Len(gTables)

(* ---- the simple grid ---- *)

\* part_002 110-117: loadData up to its await; the fetch has not been
\* evaluated by the backend yet
SimpleLoadIssue ==
  /\ vIssued < MaxViewLoads
  /\ vIssued' = vIssued + 1
  /\ vLoads' = vLoads \cup {[id |-> vIssued + 1, read |-> <<>>]}
  /\ vLoading' = TRUE
  /\ vError' = <<>>

\* part_002 162, 173, 213: the retry and refresh buttons call loadData;
\* they are shown when the view is not loading
SimpleLoadClicked ==
  /\ gPhase = "simpleView"
  /\ vMounted
  /\ ~vLoading
  /\ SimpleLoadIssue
  /\ UNCHANGED <<vMounted, vLastUpdated, vToasts, vBackend, vPushDue>>
  /\ UNCHANGED <<store, omVars, barViewVars, gridVars, rtVars, loadVars>>

\* OrderService.getOrders() of the load l is evaluated by the backend
GetOrdersRead(l) ==
  /\ gPhase = "simpleView"
  /\ l \in vLoads
  /\ l.read = <<>>
  /\ vLoads' = (vLoads \ {l}) \cup {[id |-> l.id, read |-> <<vBackend>>]}
  /\ UNCHANGED <<vMounted, vLoading, vError, vLastUpdated, vToasts, vIssued, vBackend,
                 vPushDue>>
  /\ UNCHANGED <<store, omVars, barViewVars, gridVars, rtVars, loadVars>>

GetOrdersEvaluated == \E l \in vLoads : GetOrdersRead(l)

\* part_002 114-119 and 123-125: both fetches of the load l are fulfilled
SimpleLoadFulfilled(l, tables) ==
  /\ gPhase = "simpleView"
  /\ l \in vLoads
  /\ l.read # <<>>
  /\ vLoads' = vLoads \ {l}
  /\ gTables' = VSet(gTables, tables)
  /\ gOrders' = VSet(gOrders, l.read[1])
  /\ vLoading' = VSet(vLoading, FALSE)
  /\ UNCHANGED <<gPhase, gReservations, gNow, gResult>>
  /\ UNCHANGED <<vMounted, vError, vLastUpdated, vToasts, vIssued, vBackend, vPushDue>>
  /\ UNCHANGED <<store, omVars, barViewVars, rtVars, loadVars>>

\* part_002 120-125: one of the fetches of the load l is rejected
SimpleLoadCaught(l) ==
  /\ gPhase = "simpleView"
  /\ l \in vLoads
  /\ vLoads' = vLoads \ {l}
  /\ vError' = VSet(vError, ErrorMessage)
  /\ vToasts' = VToast("error")
  /\ vLoading' = VSet(vLoading, FALSE)
  /\ UNCHANGED gridVars
  /\ UNCHANGED <<vMounted, vLastUpdated, vIssued, vBackend, vPushDue>>
  /\ UNCHANGED <<store, omVars, barViewVars, rtVars, loadVars>>

SimpleLoadSettled ==
  \E l \in vLoads :
     \/ \E tables \in TableLists : SimpleLoadFulfilled(l, tables)
     \/ SimpleLoadCaught(l)

\* part_002 130-132: the subscription delivers the current orders
onOrdersChange ==
  /\ vPushDue
  /\ vPushDue' = FALSE
  /\ gOrders' = VSet(gOrders, vBackend)
  /\ UNCHANGED <<gPhase, gTables, gReservations, gNow, gResult>>
  /\ UNCHANGED <<vMounted, vLoading, vError, vLastUpdated, vToasts, vLoads, vIssued,
                 vBackend>>
  /\ UNCHANGED <<store, omVars, barViewVars, rtVars, loadVars>>

\* part_002 43-49 and 128-134: the state after the first commit; loadData
\* is in flight and the subscription owes its first snapshot
SimpleViewInit ==
  /\ store = [o \in OrderIds |-> [status |-> "pending", isVerified |-> FALSE]]
  /\ OmInit
  /\ BarViewInit
  /\ RtInit
  /\ LoadsIdle
  /\ gPhase = "simpleView"
  /\ gTables = <<>>
  /\ gOrders = <<>>
  /\ gReservations = <<>>
  /\ gNow = 0
  /\ gResult = NoResult
  /\ vMounted = TRUE
  /\ vLoading = TRUE
  /\ vError = <<>>
  /\ vLastUpdated = 0
  /\ vToasts = [error |-> 0, success |-> 0, loading |-> 0]
  /\ vLoads = {[id |-> 1, read |-> <<>>]}
  /\ vIssued = 1
  /\ vBackend = <<>>
  /\ vPushDue = TRUE

SimpleViewNext ==
  \/ SimpleLoadClicked
  \/ GetOrdersEvaluated
  \/ SimpleLoadSettled
  \/ onOrdersChange
  \/ OrderPlaced
  \/ ViewUnmount

SpecSimpleView == SimpleViewInit /\ [][SimpleViewNext]_vars

\* C33: a loadData response that arrives after the unmount updates no
\* state and raises no notification
C33_LateResponseSilent ==
  [][(~vMounted /\ SimpleLoadSettled) =>
       /\ UNCHANGED <<gTables, gOrders, vLoading, vError>>
       /\ vToasts' = vToasts]_vars

\* C36: once no loadData is in flight and the subscription has delivered
\* its snapshot, the orders state is the current list of the backend
C36_OrdersAreLatestSnapshot ==
  (vMounted /\ vLoads = {} /\ ~vPushDue) => gOrders = vBackend

-----------------------------------------------------------------------------
(* SpecBar: the realtime effect of BarOperations, and the claims about it. *)

BarInit ==
  /\ OrderViewsIdle
  /\ GridIdle

BarNext ==
  \/ InitialLoadSettled
  \/ ReloadInitialData
  \/ BarUnmount
  \/ SnapshotPushed
  \/ ListenerFailed
  \/ DebounceElapsed
  \/ ProcessingResetFire
  \/ Tick

SpecBar == BarInit /\ [][BarNext]_vars

\* a step in which processOrdersWithMenuItems is called with orderSeq
ProcessCalledWith(orderSeq) ==
  \/ \E menuItems \in MenuLists : InitialLoadSuccess(menuItems, orderSeq)
  \/ \E g \in Subs :
       /\ DebounceFire(g)
       /\ subs[g].isSubscribed
       /\ menuItemsRef # <<>>
       /\ subs[g].debounceTimeout[1].orders = orderSeq

\* C7: when processOrdersWithMenuItems receives a snapshot whose per-order
\* (id, status, updatedAt) sequence equals that of the last processed
\* snapshot, recomputation is skipped: drinkOrders and shishaOrders are not
\* set again.
C7_UnchangedSnapshotSkipped ==
  [][\A orderSeq \in Snapshots :
       (lastProcessedOrdersRef = <<OrdersHash(orderSeq)>> /\ ProcessCalledWith(orderSeq))
         => /\ setCalls' = setCalls
            /\ drinkOrders' = drinkOrders
            /\ shishaOrders' = shishaOrders
            /\ lastProcessedOrdersRef' = lastProcessedOrdersRef]_vars

\* C7 witness: the listener's callback has handed over a snapshot with the
\* hash of the last processed one while no processing was under way, and
\* the call ended at the hash comparison.
C7_Witness ==
  /\ lastProcess = "unchanged"
  /\ \E g \in Subs :
       /\ subs[g].status = "live"
       /\ subs[g].burstCallbacks # <<>>
       /\ subs[g].debounceTimeout = <<>>
       /\ lastProcessedOrdersRef = <<OrdersHash(subs[g].burstCallbacks[1].orders)>>

\* C8: for a subscription that is live, a burst of snapshots each arriving
\* less than 300 ms after the previous one makes the processing callback
\* run exactly once, 300 ms after the last snapshot of the burst, with that
\* last snapshot.
C8_DebouncedOnce ==
  \A g \in Subs :
    (subs[g].status = "live" /\ subs[g].lastSnapshot # <<>>) =>
      /\ Len(subs[g].burstCallbacks) <= 1
      /\ subs[g].burstCallbacks # <<>> =>
           subs[g].burstCallbacks[1] =
             [orders |-> subs[g].lastSnapshot[1].orders, age |-> DebounceDelay]
      /\ subs[g].lastSnapshot[1].age > DebounceDelay => Len(subs[g].burstCallbacks) = 1

\* C8 witness: a burst of at least two snapshots ended more than 300 ms ago
\* and the callback has run once, with the last snapshot, 300 ms after it.
C8_Witness ==
  \E g \in Subs :
    /\ subs[g].status = "live"
    /\ subs[g].lastSnapshot # <<>>
    /\ subs[g].lastSnapshot[1].burst = 2
    /\ subs[g].lastSnapshot[1].age > DebounceDelay
    /\ subs[g].burstCallbacks =
         <<[orders |-> subs[g].lastSnapshot[1].orders, age |-> DebounceDelay]>>

\* a step of a handler of subscription g
SubscriptionStep(g) ==
  \/ \E orderSeq \in Snapshots : OnSnapshot(g, orderSeq)
  \/ OnListenerError(g)
  \/ DebounceFire(g)

\* C9: after the realtime effect has been torn down, the pending debounce
\* timer is cleared and the subscription is unsubscribed, and no snapshot
\* callback, debounce timer or listener error of that subscription sets
\* drinkOrders or shishaOrders or raises a notification.
C9_TornDownIsSilent ==
  /\ [](\A g \in Subs :
          subs[g].status = "torn" =>
            subs[g].debounceTimeout = <<>> /\ subs[g].unsubscribed)
  /\ [][\A g \in Subs :
          (subs[g].status = "torn" /\ SubscriptionStep(g))
            => /\ drinkOrders' = drinkOrders
               /\ shishaOrders' = shishaOrders
               /\ setCalls' = setCalls
               /\ barToasts' = barToasts]_vars

\* C9 witness: a subscription has been torn down, an event of it was
\* delivered afterwards, and it holds no timer.
C9_Witness ==
  \E g \in Subs :
    /\ subs[g].status = "torn"
    /\ subs[g].late
    /\ subs[g].debounceTimeout = <<>>

\* the feed has gone quiet on subscription g: the listener is attached, the
\* debounced callback of the last snapshot it delivered has run, the
\* cooldown timer has fired and no load is in flight.  Nothing is left to
\* happen unless a new snapshot, a reload or the unmount arrives.
FeedQuiet(g) ==
  /\ bMounted
  /\ ~loadingInitial
  /\ subs[g].status = "live"
  /\ subs[g].lastSnapshot # <<>>
  /\ subs[g].debounceTimeout = <<>>
  /\ processingReset = <<>>

\* C27: if the feed stops delivering snapshots then, whatever the
\* interleaving with the processing of the initial load or of a reload and
\* with the 100 ms cooldown, drinkOrders and shishaOrders end up equal to
\* the categorization of the last snapshot delivered: once every timer has
\* run, the two lists are that categorization.
C27_LastSnapshotShown ==
  \A g \in Subs :
    FeedQuiet(g) =>
      /\ drinkOrders
           = OrdersPushed(subs[g].lastSnapshot[1].orders, menuItemsRef, "drinks")
      /\ shishaOrders
           = OrdersPushed(subs[g].lastSnapshot[1].orders, menuItemsRef, "shisha")

\* the categories the catalog gives for a menu item id
CatalogCategories(menuItems, id) ==
  {menuItems[i].category : i \in {n \in 1..Len(menuItems) : menuItems[n].id = id}}

\* the entries of a list made from a line item of the order
EntriesFor(list, orderId, menuItemId) ==
  {e \in 1..Len(list) :
     list[e].id = orderId /\ list[e].currentItem.menuItemId = menuItemId}

=============================================================================
